---------------------------- MODULE Spec2Model ----------------------------
(***************************************************************************)
(* A model of rksg/rsa-mlisa-terraform:                                    *)
(*   - gcp_resource_reader.py : GCPResourceReader (gateway calculator,     *)
(*     per-kind fetch + transform, get_all_resources) and main;            *)
(*   - terraform_wrapper.py   : TerraformWrapper and main;                 *)
(*   - apply_resources.py     : clean_yaml, apply_replacements and main.   *)
(*                                                                         *)
(* Python strings on which the code computes (split, endswith, +, the      *)
(* ipaddress parser, str()) are sequences of one-character strings.        *)
(* Python's None is the value None below, an exception is a value of the   *)
(* form Raise(..).                                                         *)
(***************************************************************************)
EXTENDS Integers, Sequences, FiniteSets, TLC

VARIABLES
    \* --- the gateway calculator called on its own ------------------------
    cidr,            \* argument ip_cidr_range of _get_gateway_address
    gateway,         \* its return value (None before the call returns)
    gw_pc,           \* "idle" | "call" | "ret"
    cidr_case        \* what the input cidr was written from (see CidrCases)

gw_vars == <<cidr, gateway, gw_pc, cidr_case>>

VARIABLES
    \* --- a run that generates the tfvars files ---------------------------
    entry,            \* "reader": gcp_resource_reader.main;
                      \* "wrapper": TerraformWrapper._generate_gcp_resources
    focus,            \* the resource kind whose fetched list this run varies
    fetched,          \* what the list command of that kind returned (its
                      \* parsed output; <<>> before it ran or when it failed)
    ip_ranges,        \* reader.ip_ranges
    dr_region,        \* reader.dr_region
    subnetwork_name,  \* reader.subnetwork_name
    all_resources,    \* get_all_resources: the primary document being built
    all_resources_dr, \* get_all_resources: the DR document being built
    rd_pc,            \* where the run is: "idle", "init", "begin", a kind,
                      \* "write_primary", "write_dr", "done", "failed"
    error,            \* the message of the exception that ended the run
    file_primary,     \* configs/<env>/<cluster>.tfvars.json
    file_dr,          \* configs/<env>/<cluster>-dr.tfvars.json
    calls             \* the external commands run so far, with their results

rd_vars == <<entry, focus, fetched, ip_ranges, dr_region, subnetwork_name, all_resources,
             all_resources_dr, rd_pc, error, file_primary, file_dr, calls>>

VARIABLES
    \* --- a run of terraform_wrapper.main --------------------------------
    tw_pc,               \* where the run is: "idle", "main", "generating",
                         \* "set_env", "check_terraform", "workspace_show",
                         \* "workspace_list", "workspace_resolve", "dispatch",
                         \* "confirm", "run_action", "done"
    action,              \* --action
    target_site,         \* --target-site
    refresh_gcp_resource_vars,  \* --refresh-gcp-resource-vars
    auto_approve,        \* --auto-approve
    force,               \* --force
    detailed,            \* --detailed
    config_file,         \* what configs/config.json holds
    environ,             \* the TF_VAR_* entries of os.environ
    tf_workspaces,       \* terraform: the workspaces that exist
    tf_current,          \* terraform: the selected workspace
    current_workspace,   \* _create_or_switch_workspace: current_workspace
    existing_workspaces, \* _create_or_switch_workspace: existing_workspaces
    prompts,             \* how many times _confirm_action has asked
    response,            \* _confirm_action: the last answer, lowered and
                         \* stripped (None before the first one)
    printed,             \* the outcome line _run_terraform_<action> printed
                         \* ("" before the action's command has run)
    exit_status          \* the status main exits with

tw_vars == <<tw_pc, action, target_site, refresh_gcp_resource_vars, auto_approve,
             force, detailed, config_file, environ, tf_workspaces, tf_current,
             current_workspace, existing_workspaces, prompts, response,
             printed, exit_status>>

VARIABLES
    \* --- a run of apply_resources.main -----------------------------------
    ap_pc,           \* "idle" | "main" | "replace" | "write" | "kubectl" | "done"
    resources_file,  \* the text of the --resources-file
    dry_run,         \* --dry-run
    replacements,    \* load_replacements(--replacements-file)
    cleaned,         \* main: what clean_yaml returned (None before it ran)
    content,         \* main: content
    temp_file,       \* the temporary file handed to kubectl
    applied,         \* the kubectl apply runs: the manifest each was run
                     \* on and whether with --dry-run=client
    ap_exit          \* the status the script exits with

ap_vars == <<ap_pc, resources_file, dry_run, replacements, cleaned, content,
             temp_file, applied, ap_exit>>

-----------------------------------------------------------------------------
(* Strings *)

\* The characters of a string literal, as a sequence of 1-character strings.
Chars(s) == [i \in 1..Len(s) |-> SubSeq(s, i, i)]

\* Python's None: a sequence that is no sequence of characters.
None == Chars("<None>")

DigitChars == Chars("0123456789")

IsDigit(c) == \E i \in 1..10 : DigitChars[i] = c

DigitVal(c) == (CHOOSE i \in 1..10 : DigitChars[i] = c) - 1

\* str.isascii() and str.isdigit(): non-empty, every character a digit.
IsDigits(s) == Len(s) > 0 /\ \A i \in 1..Len(s) : IsDigit(s[i])

\* int(s) for a string of digits.
RECURSIVE IntOf(_)
IntOf(s) ==
    IF Len(s) = 0 THEN 0
    ELSE 10 * IntOf(SubSeq(s, 1, Len(s) - 1)) + DigitVal(s[Len(s)])

\* str(n) for a natural number n.
RECURSIVE StrOf(_)
StrOf(n) ==
    IF n < 10 THEN <<DigitChars[n + 1]>>
    ELSE StrOf(n \div 10) \o <<DigitChars[(n % 10) + 1]>>

\* s.split(sep) for a one-character separator: a sequence of strings.
RECURSIVE Split(_, _)
Split(s, sep) ==
    IF \A i \in 1..Len(s) : s[i] # sep THEN <<s>>
    ELSE LET k == CHOOSE i \in 1..Len(s) :
                      s[i] = sep /\ \A j \in 1..(i - 1) : s[j] # sep
         IN  <<SubSeq(s, 1, k - 1)>> \o Split(SubSeq(s, k + 1, Len(s)), sep)

\* sep.join(parts)
RECURSIVE Join(_, _)
Join(parts, sep) ==
    IF Len(parts) = 0 THEN <<>>
    ELSE IF Len(parts) = 1 THEN parts[1]
    ELSE parts[1] \o <<sep>> \o Join(Tail(parts), sep)

-----------------------------------------------------------------------------
(* The ipaddress library, as _get_gateway_address uses it.  An IPv4        *)
(* address is its four octets; a failed parse is the value BadValue (the   *)
(* library raises a ValueError); a result is <<v>> or a tuple of octets.   *)
(* The inputs hold no ':', so the IPv6 parser that ip_network falls back   *)
(* on always rejects them.                                                 *)

BadValue == <<>>

RECURSIVE Pow2(_)
Pow2(n) == IF n = 0 THEN 1 ELSE 2 * Pow2(n - 1)

\* a & b and a | b on 8-bit values
RECURSIVE BitAnd(_, _, _)
BitAnd(a, b, n) ==
    IF n = 0 THEN 0
    ELSE (a % 2) * (b % 2) + 2 * BitAnd(a \div 2, b \div 2, n - 1)

BitOr(a, b) == a + b - BitAnd(a, b, 8)

\* IPv4Address._parse_octet
_parse_octet(s) ==
    IF ~IsDigits(s) THEN BadValue
    ELSE IF Len(s) > 3 THEN BadValue
    ELSE IF Len(s) > 1 /\ s[1] = "0" THEN BadValue
    ELSE IF IntOf(s) > 255 THEN BadValue
    ELSE <<IntOf(s)>>

\* IPv4Address._ip_int_from_string: the four octets, or BadValue
_ip_int_from_string(s) ==
    IF Len(s) = 0 THEN BadValue
    ELSE LET octets == Split(s, ".") IN
         IF Len(octets) # 4 THEN BadValue
         ELSE IF \E i \in 1..4 : _parse_octet(octets[i]) = BadValue THEN BadValue
         ELSE [i \in 1..4 |-> _parse_octet(octets[i])[1]]

\* The netmask of a prefix length, octet by octet.
NetmaskOf(p) ==
    [i \in 1..4 |->
        IF p >= 8 * i THEN 255
        ELSE IF p <= 8 * (i - 1) THEN 0
        ELSE 256 - Pow2(8 * i - p)]

\* IPv4Network._prefix_from_ip_int: the prefix length of a netmask, or BadValue
_prefix_from_ip_int(ip) ==
    IF \E p \in 0..32 : NetmaskOf(p) = ip
    THEN <<CHOOSE p \in 0..32 : NetmaskOf(p) = ip>>
    ELSE BadValue

\* IPv4Network._prefix_from_prefix_string: digits, at most 32
_prefix_from_prefix_string(s) ==
    IF ~IsDigits(s) THEN BadValue
    ELSE IF Len(s) > 4 THEN BadValue    \* inputs keep the prefix within 4 digits
    ELSE IF IntOf(s) > 32 THEN BadValue
    ELSE <<IntOf(s)>>

\* IPv4Network._make_netmask for a string: a prefix length, a netmask or a
\* hostmask; <<prefixlen>> or BadValue
_make_netmask(s) ==
    IF IsDigits(s) THEN _prefix_from_prefix_string(s)
    ELSE LET ip == _ip_int_from_string(s) IN
         IF ip = BadValue THEN BadValue
         ELSE IF _prefix_from_ip_int(ip) # BadValue THEN _prefix_from_ip_int(ip)
         ELSE _prefix_from_ip_int([i \in 1..4 |-> 255 - ip[i]])

\* ip_network keeping the host bits of the address (the mask is not applied)
ip_network_unmasked(s) ==
    LET parts == Split(s, "/") IN
    IF Len(parts) > 2 THEN BadValue
    ELSE LET addr == _ip_int_from_string(parts[1])
             mask == IF Len(parts) = 2 THEN _make_netmask(parts[2]) ELSE <<32>>
         IN  IF addr = BadValue \/ mask = BadValue THEN BadValue
             ELSE <<addr, mask[1]>>

\* ipaddress.ip_network(s, strict=False): <<network_address, prefixlen>> with
\* the host bits masked off, or BadValue
ip_network(s) ==
    LET parts == Split(s, "/") IN
    IF Len(parts) > 2 THEN BadValue
    ELSE LET addr == _ip_int_from_string(parts[1])
             mask == IF Len(parts) = 2 THEN _make_netmask(parts[2]) ELSE <<32>>
         IN  IF addr = BadValue \/ mask = BadValue THEN BadValue
             ELSE <<[i \in 1..4 |-> BitAnd(addr[i], NetmaskOf(mask[1])[i], 8)],
                    mask[1]>>

\* IPv4Address.__add__(1): the next address, BadValue past 255.255.255.255
AddOne(ip) ==
    IF ip[4] < 255 THEN <<ip[1], ip[2], ip[3], ip[4] + 1>>
    ELSE IF ip[3] < 255 THEN <<ip[1], ip[2], ip[3] + 1, 0>>
    ELSE IF ip[2] < 255 THEN <<ip[1], ip[2] + 1, 0, 0>>
    ELSE IF ip[1] < 255 THEN <<ip[1] + 1, 0, 0, 0>>
    ELSE BadValue

\* a <= b on addresses
RECURSIVE AddrLeqFrom(_, _, _)
AddrLeqFrom(a, b, i) ==
    IF i > 4 THEN TRUE
    ELSE IF a[i] < b[i] THEN TRUE
    ELSE IF a[i] > b[i] THEN FALSE
    ELSE AddrLeqFrom(a, b, i + 1)

AddrLeq(a, b) == AddrLeqFrom(a, b, 1)

\* network.broadcast_address: network_address | hostmask
BroadcastOf(net) ==
    [i \in 1..4 |-> BitOr(net[1][i], 255 - NetmaskOf(net[2])[i])]

\* the membership test left out
InNetwork_unchecked(ip, net) == TRUE

\* address in network
InNetwork(ip, net) == AddrLeq(net[1], ip) /\ AddrLeq(ip, BroadcastOf(net))

\* str(IPv4Address)
AddrStr(ip) == Join([i \in 1..4 |-> StrOf(ip[i])], ".")

NA == Chars("N/A")

\* GCPResourceReader._get_gateway_address
_get_gateway_address(ip_cidr_range) ==
    LET network == ip_network(ip_cidr_range) IN
    IF network = BadValue THEN NA                       \* except ValueError
    ELSE LET gw == AddOne(network[1]) IN
         IF gw = BadValue THEN NA                       \* except ValueError
         ELSE IF InNetwork(gw, network) THEN AddrStr(gw)
         ELSE NA

-----------------------------------------------------------------------------
(* Python values as the reader handles them.                               *)
(*   string          a sequence of characters                              *)
(*   list            a sequence                                            *)
(*   dict            a record; a dict built key by key (nat_routers) is a  *)
(*                   sequence of <<key, value>> in insertion order         *)
(*   {} and []       <<>>                                                  *)
(*   a key that the fetched JSON does not hold: None for a string, list or *)
(*   dict value, Absent for a boolean or a number (present: <<v>>)         *)

Absent == <<>>

\* None where the code expects a dict, and the empty dict {}
NoDict == [none |-> TRUE]

EmptyDict == [empty |-> TRUE]

\* d.get(key, default) for a boolean or a number
GetOr(field, default) == IF field = Absent THEN default ELSE field[1]

\* d.get(key, default) for a string, list or dict
StrOr(field, default) == IF field = None THEN default ELSE field

\* An exception leaving a get_* method's loop (KeyError, TypeError, IndexError)
Raised == [raised |-> TRUE]

\* A fetched record that the method's filter passes over
Skipped == [skipped |-> TRUE]

DR_SUFFIX == Chars("-dr")

\* s.endswith(t)
EndsWith(s, t) ==
    Len(s) >= Len(t) /\ SubSeq(s, Len(s) - Len(t) + 1, Len(s)) = t

\* s.startswith(t)
StartsWith(s, t) == Len(s) >= Len(t) /\ SubSeq(s, 1, Len(t)) = t

\* t in s
Contains(s, t) ==
    \E i \in 1..(Len(s) - Len(t) + 1) : SubSeq(s, i, i + Len(t) - 1) = t

\* s.rsplit('/', 1)[-1]
LastSegment(s) == LET parts == Split(s, "/") IN parts[Len(parts)]

\* A loop that loses the DR record of the last fetched record it kept.
Appended_dropping(yields) ==
    LET kept == SelectSeq(yields, LAMBDA y : y # [skipped |-> TRUE])
    IN  [p |-> [i \in 1..Len(kept) |-> kept[i].p],
         d |-> [i \in 1..(Len(kept) - 1) |-> kept[i].d]]

\* The records a loop appended, given what each fetched record yielded
\* (Skipped, or a pair [p |-> primary record, d |-> DR record]).
Appended(yields) ==
    LET kept == SelectSeq(yields, LAMBDA y : y # Skipped)
    IN  [p |-> [i \in 1..Len(kept) |-> kept[i].p],
         d |-> [i \in 1..Len(kept) |-> kept[i].d]]

\* for record in json.loads(stdout): ... inside try/except, given what the
\* body yields for each record: Raised when the body raises for some record,
\* else the two lists built.
ForEach(yields) ==
    IF \E i \in 1..Len(yields) : yields[i] = Raised THEN Raised
    ELSE Appended(yields)

-----------------------------------------------------------------------------
(* configs/config.json: the values the reader is constructed from          *)

PROJECT_ID   == Chars("mlisa-stg")
NETWORK_NAME == Chars("vpc1")
REGION       == Chars("us-west1")
DR_REGION    == Chars("us-east1")

IpRangeKeys ==
    {"subnet_ip_cidr_range", "secondary_ip_range_pod", "secondary_ip_range_svc",
     "vpc_connector_ip_cidr_range", "gke_master_ip_cidr_range"}

PrimaryRanges ==
    [subnet_ip_cidr_range        |-> Chars("10.1.0.0/24"),
     secondary_ip_range_pod      |-> Chars("10.11.0.0/16"),
     secondary_ip_range_svc      |-> Chars("10.12.0.0/20"),
     vpc_connector_ip_cidr_range |-> Chars("10.120.46.0/28"),
     gke_master_ip_cidr_range    |-> Chars("172.16.0.0/28")]

DrRanges ==
    [subnet_ip_cidr_range        |-> Chars("10.2.0.0/24"),
     secondary_ip_range_pod      |-> Chars("10.21.0.0/16"),
     secondary_ip_range_svc      |-> Chars("10.22.0.0/20"),
     vpc_connector_ip_cidr_range |-> Chars("10.120.47.0/28"),
     gke_master_ip_cidr_range    |-> Chars("172.16.1.0/28")]

\* ip_ranges blocks a configuration can hold: both branches complete; the DR
\* branch without its subnet range; no DR branch at all.
IpRangeConfigs ==
    { [primary |-> PrimaryRanges, dr |-> DrRanges],
      [primary |-> PrimaryRanges,
       dr |-> [DrRanges EXCEPT !.subnet_ip_cidr_range = None]],
      [primary |-> PrimaryRanges, dr |-> EmptyDict] }

\* self.ip_ranges.get(site, {}).get(key): None when the branch or key is absent
IpGet(ipr, site, key) ==
    IF ipr[site] = EmptyDict THEN None ELSE ipr[site][key]

\* self.ip_ranges.get(site, {}).get(key, '')
IpGetStr(ipr, site, key) == StrOr(IpGet(ipr, site, key), <<>>)

-----------------------------------------------------------------------------
(* get_compute_subnetworks                                                 *)

\* secondary_ip_range of a subnetwork: pod range for names ending in 'pod',
\* service range otherwise
SecondaryRanges(sn, ipr, site, suffix) ==
    [i \in 1..Len(sn.secondaryIpRanges) |->
        [name |-> sn.secondaryIpRanges[i].rangeName \o suffix,
         ip_cidr_range |->
            IF EndsWith(sn.secondaryIpRanges[i].rangeName, Chars("pod"))
            THEN IpGetStr(ipr, site, "secondary_ip_range_pod")
            ELSE IpGetStr(ipr, site, "secondary_ip_range_svc")]]

\* subnetwork.get('secondaryIpRanges') is truthy
HasSecondary(sn) == sn.secondaryIpRanges # None /\ sn.secondaryIpRanges # <<>>

\* A subnetwork record that always takes the connector range.
SubnetInfo_connector_range(sn, ipr, site, suffix) ==
    [name |-> sn.name \o suffix,
     description |-> StrOr(sn.description, <<>>),
     ip_cidr_range |-> IpGetStr(ipr, site, "vpc_connector_ip_cidr_range"),
     gateway_address |->
        _get_gateway_address(IpGetStr(ipr, site, "vpc_connector_ip_cidr_range")),
     private_ip_google_access |-> GetOr(sn.privateIpGoogleAccess, FALSE),
     secondary_ip_range |->
        IF HasSecondary(sn) THEN SecondaryRanges(sn, ipr, site, suffix)
        ELSE <<>>]

\* one subnetwork_info / dr_subnetwork_info
SubnetInfo(sn, ipr, site, suffix) ==
    LET key == IF HasSecondary(sn) THEN "subnet_ip_cidr_range"
               ELSE "vpc_connector_ip_cidr_range"
    IN  [name |-> sn.name \o suffix,
         description |-> StrOr(sn.description, <<>>),
         ip_cidr_range |-> IpGetStr(ipr, site, key),
         gateway_address |-> _get_gateway_address(IpGetStr(ipr, site, key)),
         private_ip_google_access |-> GetOr(sn.privateIpGoogleAccess, FALSE),
         secondary_ip_range |->
            IF HasSecondary(sn) THEN SecondaryRanges(sn, ipr, site, suffix)
            ELSE <<>>]

\* get_compute_subnetworks on the fetched list: the two lists
get_compute_subnetworks(srcs, ipr) ==
    LET Body(sn) == [p |-> SubnetInfo(sn, ipr, "primary", <<>>),
                     d |-> SubnetInfo(sn, ipr, "dr", DR_SUFFIX)]
    IN  ForEach([i \in 1..Len(srcs) |-> Body(srcs[i])])

\* A get_compute_subnetworks that leaves self.subnetwork_name as it was.
SubnetworkNameAfter_unset(srcs, before) == before

\* self.subnetwork_name after the loop: the name of the last subnetwork with
\* secondary ranges, else what it was
RECURSIVE SubnetworkNameAfter(_, _)
SubnetworkNameAfter(srcs, before) ==
    IF Len(srcs) = 0 THEN before
    ELSE IF HasSecondary(srcs[Len(srcs)]) THEN srcs[Len(srcs)].name
    ELSE SubnetworkNameAfter(SubSeq(srcs, 1, Len(srcs) - 1), before)

-----------------------------------------------------------------------------
(* get_nat_routers                                                         *)

\* the 'nat' value: from nats[0] when the router has nats, else []
NatInfo(router, suffix) ==
    IF router.nats # None /\ router.nats # <<>>
    THEN [name |-> router.nats[1].name \o suffix,
          nat_ip_allocate_option |-> StrOr(router.nats[1].natIpAllocateOption, <<>>),
          max_ports_per_vm |-> GetOr(router.nats[1].maxPortsPerVm, 0)]
    ELSE <<>>

RouterInfo(router, suffix) ==
    [name |-> router.name \o suffix,
     description |-> StrOr(router.description, <<>>),
     nat |-> NatInfo(router, suffix)]

\* d[key] = value on a dict kept as a sequence of <<key, value>>
DictSet(d, key, value) ==
    IF \E i \in 1..Len(d) : d[i][1] = key
    THEN [i \in 1..Len(d) |-> IF d[i][1] = key THEN <<key, value>> ELSE d[i]]
    ELSE Append(d, <<key, value>>)

RECURSIVE RoutersDict(_, _)
RoutersDict(srcs, suffix) ==
    IF Len(srcs) = 0 THEN <<>>
    ELSE DictSet(RoutersDict(SubSeq(srcs, 1, Len(srcs) - 1), suffix),
                 srcs[Len(srcs)].name \o suffix,
                 RouterInfo(srcs[Len(srcs)], suffix))

\* get_nat_routers on the fetched list: the two dicts
get_nat_routers(srcs) ==
    [p |-> RoutersDict(srcs, <<>>), d |-> RoutersDict(srcs, DR_SUFFIX)]

-----------------------------------------------------------------------------
(* get_dataproc_clusters.  A fetched cluster is kept flat: subnetworkUri,   *)
(* tags and internalIpOnly are those of cluster['config']['gceClusterConfig'] *)
(* and the record built holds them under the same names.                   *)

(* subnetwork is subnetworkUri.rsplit('/', 1)[-1].                        *)

DataprocInfo(cluster, is_dr) ==
    [cluster_name |-> cluster.clusterName \o (IF is_dr THEN DR_SUFFIX ELSE <<>>),
     subnetwork |-> LastSegment(cluster.subnetworkUri) \o (IF is_dr THEN DR_SUFFIX ELSE <<>>),
     tags |-> IF ~is_dr THEN cluster.tags
              ELSE IF cluster.tags # None /\ cluster.tags # <<>>
                   THEN <<cluster.tags[1] \o DR_SUFFIX>>
                   ELSE None,
     internal_ip_only |-> cluster.internalIpOnly]

\* get_dataproc_clusters on the fetched list: the first cluster on
\* self.subnetwork_name ({} and {} when there is none), Raised when a cluster
\* reached before it has no subnetworkUri
RECURSIVE get_dataproc_clusters(_, _)
get_dataproc_clusters(srcs, sn_name) ==
    IF Len(srcs) = 0 THEN [p |-> EmptyDict, d |-> EmptyDict]
    ELSE IF srcs[1].subnetworkUri = None THEN Raised
    ELSE IF LastSegment(srcs[1].subnetworkUri) = sn_name
         THEN [p |-> DataprocInfo(srcs[1], FALSE), d |-> DataprocInfo(srcs[1], TRUE)]
    ELSE get_dataproc_clusters(Tail(srcs), sn_name)

-----------------------------------------------------------------------------
(* get_cloudfunctions                                                      *)

FunctionInfo(function, suffix) ==
    [name |-> LastSegment(function.name) \o suffix,
     runtime |-> function.runtime,
     trigger_http |-> TRUE,
     vpc_connector |-> LastSegment(function.vpcConnector) \o suffix,
     min_instances |-> GetOr(function.minInstances, 0),
     max_instances |-> GetOr(function.maxInstances, 0)]

\* get_cloudfunctions on the fetched list
get_cloudfunctions(srcs) ==
    LET Body(function) == [p |-> FunctionInfo(function, <<>>),
                           d |-> FunctionInfo(function, DR_SUFFIX)]
    IN  ForEach([i \in 1..Len(srcs) |-> Body(srcs[i])])

-----------------------------------------------------------------------------
(* get_cloudrun.  vpc_connector is the service's annotation                *)
(* run.googleapis.com/vpc-access-connector (None without it); region is    *)
(* the region the service runs in (its label                               *)
(* cloud.googleapis.com/location), which the code does not read: the list  *)
(* command has no --region and returns the services of every region.       *)

FUNC_SUFFIX == Chars("-func")

\* A service record that names the primary connector at both sites.
ServiceInfo_same_connector(service, sn_name, suffix) ==
    [name |-> service.name \o suffix,
     vpc_access_connector |-> sn_name \o FUNC_SUFFIX,
     timeout_seconds |-> service.timeoutSeconds]

ServiceInfo(service, sn_name, suffix) ==
    [name |-> service.name \o suffix,
     vpc_access_connector |-> sn_name \o FUNC_SUFFIX \o suffix,
     timeout_seconds |-> service.timeoutSeconds]

\* get_cloudrun on the fetched list: a service on another connector is
\* skipped
get_cloudrun(srcs, sn_name) ==
    LET Body(service) ==
            IF service.vpc_connector = sn_name \o FUNC_SUFFIX
            THEN [p |-> ServiceInfo(service, sn_name, <<>>),
                  d |-> ServiceInfo(service, sn_name, DR_SUFFIX)]
            ELSE Skipped
    IN  ForEach([i \in 1..Len(srcs) |-> Body(srcs[i])])

-----------------------------------------------------------------------------
(* get_container_clusters                                                  *)

\* _extract_ip_allocation_policy: None without a policy; Raised (None + '-dr')
\* for the DR policy when a range name is missing
_extract_ip_allocation_policy(policy, is_dr) ==
    IF policy = NoDict \/ policy = EmptyDict THEN NoDict
    ELSE IF is_dr
    THEN IF policy.clusterSecondaryRangeName = None
            \/ policy.servicesSecondaryRangeName = None
         THEN Raised
         ELSE [cluster_secondary_range_name |->
                    policy.clusterSecondaryRangeName \o DR_SUFFIX,
               services_secondary_range_name |->
                    policy.servicesSecondaryRangeName \o DR_SUFFIX]
    ELSE [cluster_secondary_range_name |-> policy.clusterSecondaryRangeName,
          services_secondary_range_name |-> policy.servicesSecondaryRangeName]

\* _extract_private_cluster_config
_extract_private_cluster_config(config, is_dr, ipr) ==
    IF config = NoDict \/ config = EmptyDict THEN NoDict
    ELSE [enable_private_nodes |-> config.enablePrivateNodes,
          master_ipv4_cidr_block |->
              IpGetStr(ipr, IF is_dr THEN "dr" ELSE "primary",
                       "gke_master_ip_cidr_range")]

\* An _extract_node_pools that gives the DR pool the count of the primary.
_extract_node_pools_same_count(node_pools, is_dr) ==
    [i \in 1..Len(node_pools) |->
        [name |-> node_pools[i].name \o (IF is_dr THEN DR_SUFFIX ELSE <<>>),
         initial_node_count |->
            IF node_pools[i].initialNodeCount = Absent THEN 1
            ELSE node_pools[i].initialNodeCount[1]]]

\* _extract_node_pools
_extract_node_pools(node_pools, is_dr) ==
    [i \in 1..Len(node_pools) |->
        [name |-> node_pools[i].name \o (IF is_dr THEN DR_SUFFIX ELSE <<>>),
         initial_node_count |->
            IF is_dr \/ node_pools[i].initialNodeCount = Absent THEN 1
            ELSE node_pools[i].initialNodeCount[1]]]

ClusterInfo(cluster, is_dr, ipr) ==
    [name |-> cluster.name \o (IF is_dr THEN DR_SUFFIX ELSE <<>>),
     subnetwork |-> cluster.subnetwork \o (IF is_dr THEN DR_SUFFIX ELSE <<>>),
     ip_allocation_policy |->
        _extract_ip_allocation_policy(cluster.ipAllocationPolicy, is_dr),
     \* cluster['deletionProtection'] if cluster.get('deletionProtection')
     \* else True; False in the DR record
     deletion_protection |->
        IF is_dr THEN FALSE
        ELSE IF GetOr(cluster.deletionProtection, FALSE)
             THEN cluster.deletionProtection[1]
             ELSE TRUE,
     private_cluster_config |->
        _extract_private_cluster_config(cluster.privateClusterConfig, is_dr, ipr),
     node_pools |-> _extract_node_pools(StrOr(cluster.nodePools, <<>>), is_dr)]

\* get_container_clusters on the fetched list
get_container_clusters(srcs, ipr) ==
    LET Body(cluster) ==
            IF _extract_ip_allocation_policy(cluster.ipAllocationPolicy, TRUE)
                  = Raised
            THEN Raised
            ELSE [p |-> ClusterInfo(cluster, FALSE, ipr),
                  d |-> ClusterInfo(cluster, TRUE, ipr)]
    IN  ForEach([i \in 1..Len(srcs) |-> Body(srcs[i])])

-----------------------------------------------------------------------------
(* get_firewall_rules                                                      *)

\* A name pattern without its '^dpc' anchor.
MatchesDpcAllow_unanchored(name) == Contains(name, Chars("-allow-"))

\* re.search('^dpc.*-allow-.*', name): the pattern get_all_resources passes
MatchesDpcAllow(name) ==
    /\ StartsWith(name, Chars("dpc"))
    /\ Contains(SubSeq(name, 4, Len(name)), Chars("-allow-"))

\* _get_source_ranges
_get_source_ranges(name, is_dr, ipr) ==
    LET site == IF is_dr THEN "dr" ELSE "primary" IN
    IF Contains(name, Chars("allow-gke"))
    THEN <<IpGet(ipr, site, "subnet_ip_cidr_range"),
           IpGet(ipr, site, "secondary_ip_range_pod"),
           IpGet(ipr, site, "secondary_ip_range_svc")>>
    ELSE IF Contains(name, Chars("allow-vms"))
    THEN <<IpGet(ipr, site, "subnet_ip_cidr_range")>>
    ELSE <<>>

FirewallInfo(firewall, is_dr, ipr) ==
    [name |-> firewall.name \o (IF is_dr THEN DR_SUFFIX ELSE <<>>),
     description |-> StrOr(firewall.description, <<>>),
     priority |-> GetOr(firewall.priority, 0),
     disabled |-> GetOr(firewall.disabled, FALSE),
     source_ranges |-> _get_source_ranges(firewall.name, is_dr, ipr),
     destination_ranges |-> StrOr(firewall.destinationRanges, <<>>),
     target_tags |->
        <<firewall.targetTags[1] \o (IF is_dr THEN DR_SUFFIX ELSE <<>>)>>]

\* get_firewall_rules on the fetched list; name_regex: whether the pattern
\* '^dpc.*-allow-.*' is given.  The loop body skips a name the pattern does
\* not match and raises (TypeError, IndexError) when targetTags is missing
\* or empty
get_firewall_rules(srcs, name_regex, ipr) ==
    LET Body(firewall) ==
            IF name_regex /\ ~MatchesDpcAllow(firewall.name) THEN Skipped
            ELSE IF firewall.targetTags = None \/ firewall.targetTags = <<>>
                 THEN Raised
            ELSE [p |-> FirewallInfo(firewall, FALSE, ipr),
                  d |-> FirewallInfo(firewall, TRUE, ipr)]
    IN  ForEach([i \in 1..Len(srcs) |-> Body(srcs[i])])

-----------------------------------------------------------------------------
(* get_compute_addresses                                                   *)

AddressInfo(address, suffix) ==
    [name |-> address.name \o suffix,
     description |-> StrOr(address.description, <<>>),
     address_type |-> StrOr(address.addressType, <<>>),
     subnetwork |->
        IF address.subnetwork # None /\ address.subnetwork # <<>>
        THEN LastSegment(address.subnetwork) \o suffix
        ELSE None]

\* get_compute_addresses on the fetched list
get_compute_addresses(srcs) ==
    LET Body(address) == [p |-> AddressInfo(address, <<>>),
                          d |-> AddressInfo(address, DR_SUFFIX)]
    IN  ForEach([i \in 1..Len(srcs) |-> Body(srcs[i])])

-----------------------------------------------------------------------------
(* get_vpc_access_connectors.  connector.subnet: NoDict when the key is    *)
(* missing (KeyError), EmptyDict when empty, else a record with a name.     *)

ConnectorInfo(connector, suffix) ==
    [name |-> LastSegment(connector.name) \o suffix,
     min_throughput |-> connector.minThroughput,
     max_throughput |-> connector.maxThroughput,
     subnet |->
        IF connector.subnet # EmptyDict
        THEN [name |-> connector.subnet.name \o suffix]
        ELSE [name |-> LastSegment(connector.name) \o suffix]]

\* get_vpc_access_connectors on the fetched list
get_vpc_access_connectors(srcs) ==
    LET Body(connector) ==
            IF connector.subnet = NoDict THEN Raised
            ELSE [p |-> ConnectorInfo(connector, <<>>),
                  d |-> ConnectorInfo(connector, DR_SUFFIX)]
    IN  ForEach([i \in 1..Len(srcs) |-> Body(srcs[i])])

-----------------------------------------------------------------------------
(* get_redis_instances                                                     *)

\* A Redis record whose DR name puts the marker in front.
RedisInfo_prefixed(instance, suffix) ==
    [name |-> suffix \o LastSegment(instance.name),
     display_name |-> StrOr(instance.displayName, <<>>) \o suffix,
     memory_size_gb |-> GetOr(instance.memorySizeGb, 0),
     replica_count |-> GetOr(instance.replicaCount, 0)]

RedisInfo(instance, suffix) ==
    [name |-> LastSegment(instance.name) \o suffix,
     display_name |-> StrOr(instance.displayName, <<>>) \o suffix,
     memory_size_gb |-> GetOr(instance.memorySizeGb, 0),
     replica_count |-> GetOr(instance.replicaCount, 0)]

\* get_redis_instances on the fetched list
get_redis_instances(srcs) ==
    LET Body(instance) == [p |-> RedisInfo(instance, <<>>),
                           d |-> RedisInfo(instance, DR_SUFFIX)]
    IN  ForEach([i \in 1..Len(srcs) |-> Body(srcs[i])])

-----------------------------------------------------------------------------
(* get_sql_databases and get_sql_postgres_instances                        *)

\* A database listing whose failure leaves a placeholder name behind.
get_sql_databases_placeholder(outcome) ==
    IF outcome.rc # 0 \/ ~outcome.parses THEN <<Chars("unknown")>>
    ELSE SelectSeq(outcome.names, LAMBDA n : n # Chars("postgres"))

\* get_sql_databases: the names other than 'postgres'; [] when the command
\* fails or its output does not parse
get_sql_databases(outcome) ==
    IF outcome.rc # 0 \/ ~outcome.parses THEN <<>>
    ELSE SelectSeq(outcome.names, LAMBDA n : n # Chars("postgres"))

\* the instance is a PostgreSQL instance on the reader's network
IsPostgresOnNetwork(instance, network_name) ==
    /\ StartsWith(StrOr(instance.databaseVersion, <<>>), Chars("POSTGRES"))
    /\ instance.privateNetwork # None /\ instance.privateNetwork # <<>>
    /\ Contains(instance.privateNetwork, Chars("/networks/") \o network_name)

SqlInfo(instance, is_dr, databases) ==
    [name |-> LastSegment(instance.name) \o (IF is_dr THEN DR_SUFFIX ELSE <<>>),
     database_version |-> StrOr(instance.databaseVersion, <<>>),
     deletion_protection |-> ~is_dr,
     data_disk_size_gb |-> GetOr(instance.dataDiskSizeGb, 0),
     databases |-> databases]

\* get_sql_postgres_instances on the fetched list; db_outcomes[i] is what
\* `gcloud sql databases list` gives for the i-th fetched instance
get_sql_postgres_instances(srcs, db_outcomes, network_name) ==
    Appended([i \in 1..Len(srcs) |->
        IF IsPostgresOnNetwork(srcs[i], network_name)
        THEN [p |-> SqlInfo(srcs[i], FALSE, get_sql_databases(db_outcomes[i])),
              d |-> SqlInfo(srcs[i], TRUE, get_sql_databases(db_outcomes[i]))]
        ELSE Skipped])

-----------------------------------------------------------------------------
(* What the cloud holds: the records gcloud can return, per kind.          *)

MaxRecords == 2

\* every list of at most n records of S
SeqsUpTo(S, n) == UNION { [1..k -> S] : k \in 0..n }

SubnetUrl(name) ==
    Chars("https://www.googleapis.com/compute/v1/projects/") \o PROJECT_ID
        \o Chars("/regions/") \o REGION \o Chars("/subnetworks/") \o name

NetworkPath(name) ==
    Chars("projects/") \o PROJECT_ID \o Chars("/global/networks/") \o name

\* a resource path under a location of the project
LocationPath(region, collection, name) ==
    Chars("projects/") \o PROJECT_ID \o Chars("/locations/") \o region
        \o Chars("/") \o collection \o Chars("/") \o name

\* the records each kind's list command can return
CloudRecords ==
    [
     compute_subnetworks |->
        { [name |-> Chars("sn1"), description |-> None,
           privateIpGoogleAccess |-> <<TRUE>>,
           secondaryIpRanges |-> <<[rangeName |-> Chars("sn1-pod")],
                                   [rangeName |-> Chars("sn1-svc")]>>],
          [name |-> Chars("sn2"), description |-> Chars("second"),
           privateIpGoogleAccess |-> Absent,
           secondaryIpRanges |-> <<[rangeName |-> Chars("sn2-pod")]>>],
          [name |-> Chars("sn1-func"), description |-> Chars("connector"),
           privateIpGoogleAccess |-> Absent, secondaryIpRanges |-> None] },
     nat_routers |->
        { [name |-> Chars("rt1"), description |-> None,
           nats |-> <<[name |-> Chars("nat1"),
                       natIpAllocateOption |-> Chars("AUTO_ONLY"),
                       maxPortsPerVm |-> Absent]>>],
          [name |-> Chars("rt2"), description |-> Chars("spare"), nats |-> None] },
     dataproc_cluster |->
        { [clusterName |-> Chars("dp1"), subnetworkUri |-> SubnetUrl(Chars("sn1")),
           tags |-> <<Chars("druid")>>, internalIpOnly |-> <<TRUE>>],
          [clusterName |-> Chars("dp2"), subnetworkUri |-> SubnetUrl(Chars("sn2")),
           tags |-> None, internalIpOnly |-> Absent],
          [clusterName |-> Chars("dp3"), subnetworkUri |-> None,
           tags |-> None, internalIpOnly |-> Absent] },
     cloud_functions |->
        { [name |-> LocationPath(REGION, Chars("functions"), Chars("fn1")), runtime |-> Chars("python39"),
           vpcConnector |-> LocationPath(REGION, Chars("connectors"), Chars("sn1-func")),
           minInstances |-> Absent, maxInstances |-> <<3>>],
          [name |-> LocationPath(DR_REGION, Chars("functions"), Chars("fn1")), runtime |-> Chars("python39"),
           vpcConnector |-> LocationPath(DR_REGION, Chars("connectors"), Chars("sn1-func")),
           minInstances |-> <<1>>, maxInstances |-> Absent],
          [name |-> LocationPath(REGION, Chars("functions"), Chars("fn2")), runtime |-> Chars("go121"),
           vpcConnector |-> LocationPath(REGION, Chars("connectors"), Chars("sn2-func")),
           minInstances |-> Absent, maxInstances |-> Absent] },
     cloud_run_services |->
        { [name |-> Chars("svc1"), region |-> REGION,
           vpc_connector |-> Chars("sn1-func"), timeoutSeconds |-> <<300>>],
          [name |-> Chars("svc1"), region |-> DR_REGION,
           vpc_connector |-> Chars("sn1-func"), timeoutSeconds |-> <<60>>],
          [name |-> Chars("svc2"), region |-> REGION,
           vpc_connector |-> Chars("sn2-func"), timeoutSeconds |-> Absent],
          [name |-> Chars("svc3"), region |-> REGION,
           vpc_connector |-> None, timeoutSeconds |-> Absent] },
     firewall_rules |->
        { [name |-> Chars("dpc-sn1-allow-gke"), description |-> None,
           priority |-> <<1000>>, disabled |-> Absent, destinationRanges |-> None,
           targetTags |-> <<Chars("gke-node")>>],
          [name |-> Chars("dpc-sn1-allow-vms"), description |-> Chars("vms"),
           priority |-> Absent, disabled |-> <<TRUE>>,
           destinationRanges |-> <<Chars("10.1.0.0/24")>>,
           targetTags |-> <<Chars("vm"), Chars("bastion")>>],
          [name |-> Chars("dpc-sn1-allow-lb"), description |-> None,
           priority |-> <<900>>, disabled |-> Absent, destinationRanges |-> None,
           targetTags |-> None],
          [name |-> Chars("default-allow-ssh"), description |-> None,
           priority |-> <<65534>>, disabled |-> Absent, destinationRanges |-> None,
           targetTags |-> None] },
     compute_addresses |->
        { [name |-> Chars("addr1"), description |-> None,
           addressType |-> Chars("INTERNAL"), subnetwork |-> SubnetUrl(Chars("sn1"))],
          [name |-> Chars("addr2"), description |-> Chars("lb"),
           addressType |-> Chars("INTERNAL"), subnetwork |-> SubnetUrl(Chars("sn2"))],
          [name |-> Chars("addr3"), description |-> None,
           addressType |-> Chars("EXTERNAL"), subnetwork |-> None] },
     container_clusters |->
        { [name |-> Chars("gke1"), subnetwork |-> Chars("sn1"),
           ipAllocationPolicy |->
              [clusterSecondaryRangeName |-> Chars("sn1-pod"),
               servicesSecondaryRangeName |-> Chars("sn1-svc")],
           privateClusterConfig |-> [enablePrivateNodes |-> <<TRUE>>],
           nodePools |-> <<[name |-> Chars("pool1"), initialNodeCount |-> <<3>>],
                           [name |-> Chars("pool2"), initialNodeCount |-> Absent],
                           [name |-> Chars("pool3"), initialNodeCount |-> <<0>>]>>,
           deletionProtection |-> <<FALSE>>],
          [name |-> Chars("gke2"), subnetwork |-> Chars("sn1"),
           ipAllocationPolicy |->
              [clusterSecondaryRangeName |-> None,
               servicesSecondaryRangeName |-> None],
           privateClusterConfig |-> NoDict, nodePools |-> None,
           deletionProtection |-> Absent],
          [name |-> Chars("gke3"), subnetwork |-> Chars("sn2"),
           ipAllocationPolicy |-> NoDict,
           privateClusterConfig |-> [enablePrivateNodes |-> Absent],
           nodePools |-> <<[name |-> Chars("pool1"), initialNodeCount |-> <<1>>]>>,
           deletionProtection |-> <<TRUE>>] },
     redis_instances |->
        { [name |-> LocationPath(REGION, Chars("instances"), Chars("redis1")), displayName |-> None,
           memorySizeGb |-> <<5>>, replicaCount |-> Absent],
          [name |-> LocationPath(REGION, Chars("instances"), Chars("redis2")), displayName |-> Chars("cache"),
           memorySizeGb |-> Absent, replicaCount |-> <<2>>] },
     sql_postgres_instances |->
        { [name |-> Chars("pg1"), databaseVersion |-> Chars("POSTGRES_14"),
           privateNetwork |-> NetworkPath(NETWORK_NAME), dataDiskSizeGb |-> <<100>>],
          [name |-> Chars("pg2"), databaseVersion |-> Chars("POSTGRES_14"),
           privateNetwork |-> NetworkPath(Chars("other")), dataDiskSizeGb |-> Absent],
          [name |-> Chars("my1"), databaseVersion |-> Chars("MYSQL_8_0"),
           privateNetwork |-> NetworkPath(NETWORK_NAME), dataDiskSizeGb |-> Absent],
          [name |-> Chars("pg3"), databaseVersion |-> None,
           privateNetwork |-> None, dataDiskSizeGb |-> Absent] },
     vpc_access_connectors |->
        { [name |-> LocationPath(REGION, Chars("connectors"), Chars("sn1-func")),
           minThroughput |-> 200, maxThroughput |-> 300,
           subnet |-> [name |-> Chars("sn1-func")]],
          [name |-> LocationPath(REGION, Chars("connectors"), Chars("conn2")),
           minThroughput |-> 200, maxThroughput |-> 1000, subnet |-> EmptyDict],
          [name |-> LocationPath(REGION, Chars("connectors"), Chars("conn3")),
           minThroughput |-> 200, maxThroughput |-> 300, subnet |-> NoDict] }
    ]

\* what each kind's list command returns in a run that varies another kind
CloudBaseline ==
    [
     compute_subnetworks |->
        << [name |-> Chars("sn1"), description |-> None,
            privateIpGoogleAccess |-> <<TRUE>>,
            secondaryIpRanges |-> <<[rangeName |-> Chars("sn1-pod")],
                                    [rangeName |-> Chars("sn1-svc")]>>],
           [name |-> Chars("sn1-func"), description |-> Chars("connector"),
            privateIpGoogleAccess |-> Absent, secondaryIpRanges |-> None] >>,
     nat_routers |->
        << [name |-> Chars("rt1"), description |-> None,
            nats |-> <<[name |-> Chars("nat1"),
                        natIpAllocateOption |-> Chars("AUTO_ONLY"),
                        maxPortsPerVm |-> Absent]>>] >>,
     dataproc_cluster |->
        << [clusterName |-> Chars("dp1"), subnetworkUri |-> SubnetUrl(Chars("sn1")),
            tags |-> <<Chars("druid")>>, internalIpOnly |-> <<TRUE>>] >>,
     cloud_functions |->
        << [name |-> LocationPath(REGION, Chars("functions"), Chars("fn1")), runtime |-> Chars("python39"),
            vpcConnector |-> LocationPath(REGION, Chars("connectors"), Chars("sn1-func")),
            minInstances |-> Absent, maxInstances |-> <<3>>] >>,
     cloud_run_services |->
        << [name |-> Chars("svc1"), region |-> REGION,
            vpc_connector |-> Chars("sn1-func"), timeoutSeconds |-> <<300>>] >>,
     firewall_rules |->
        << [name |-> Chars("dpc-sn1-allow-gke"), description |-> None,
            priority |-> <<1000>>, disabled |-> Absent, destinationRanges |-> None,
            targetTags |-> <<Chars("gke-node")>>] >>,
     compute_addresses |->
        << [name |-> Chars("addr1"), description |-> None,
            addressType |-> Chars("INTERNAL"), subnetwork |-> SubnetUrl(Chars("sn1"))] >>,
     container_clusters |->
        << [name |-> Chars("gke1"), subnetwork |-> Chars("sn1"),
            ipAllocationPolicy |->
               [clusterSecondaryRangeName |-> Chars("sn1-pod"),
                servicesSecondaryRangeName |-> Chars("sn1-svc")],
            privateClusterConfig |-> [enablePrivateNodes |-> <<TRUE>>],
            nodePools |-> <<[name |-> Chars("pool1"), initialNodeCount |-> <<3>>],
                            [name |-> Chars("pool2"), initialNodeCount |-> Absent]>>,
            deletionProtection |-> <<FALSE>>] >>,
     redis_instances |->
        << [name |-> LocationPath(REGION, Chars("instances"), Chars("redis1")), displayName |-> None,
            memorySizeGb |-> <<5>>, replicaCount |-> Absent] >>,
     sql_postgres_instances |->
        << [name |-> Chars("pg1"), databaseVersion |-> Chars("POSTGRES_14"),
            privateNetwork |-> NetworkPath(NETWORK_NAME), dataDiskSizeGb |-> <<100>>] >>,
     vpc_access_connectors |->
        << [name |-> LocationPath(REGION, Chars("connectors"), Chars("sn1-func")),
            minThroughput |-> 200, maxThroughput |-> 300,
            subnet |-> [name |-> Chars("sn1-func")]] >>
    ]


-----------------------------------------------------------------------------
(* One run that builds the two documents and writes the two files:         *)
(* gcp_resource_reader.main, or TerraformWrapper._generate_gcp_resources.  *)

\* the order in which get_all_resources fetches the kinds
KindOrder ==
    <<"compute_subnetworks", "nat_routers", "dataproc_cluster",
      "cloud_functions", "cloud_run_services", "firewall_rules",
      "compute_addresses", "container_clusters", "redis_instances",
      "sql_postgres_instances", "vpc_access_connectors">>

Kinds == { KindOrder[i] : i \in 1..Len(KindOrder) }

KindIndex(kind) == CHOOSE i \in 1..Len(KindOrder) : KindOrder[i] = kind

\* where get_all_resources goes after a kind: the next kind, or back to the
\* caller, which writes the files
NextPc(kind) ==
    IF KindIndex(kind) = Len(KindOrder) THEN "write_primary"
    ELSE KindOrder[KindIndex(kind) + 1]

\* the text each get_* method puts in front of the error it re-raises
KindError ==
    [compute_subnetworks    |-> "Error getting compute subnetworks: ",
     nat_routers            |-> "Error getting NAT routers: ",
     dataproc_cluster       |-> "Error getting DataProc clusters: ",
     cloud_functions        |-> "Error getting Cloud Functions: ",
     cloud_run_services     |-> "Error getting Cloud Run services: ",
     firewall_rules         |-> "Error getting firewall rules: ",
     compute_addresses      |-> "Error getting compute addresses: ",
     container_clusters     |-> "Error getting container clusters: ",
     redis_instances        |-> "Error getting Redis instances: ",
     sql_postgres_instances |-> "Error getting PostgreSQL instances: ",
     vpc_access_connectors  |-> "Error getting VPC Access Connectors: "]

\* the message of the exception that leaves the run, outermost wrapping
\* first: the wrapper entry adds its own prefix
ErrorChain(parts) ==
    IF entry = "wrapper" THEN <<"Failed to generate GCP resources: ">> \o parts
    ELSE parts

\* what a gcloud list command can give: the listed records as JSON, a
\* non-zero exit (CalledProcessError), or output that is not JSON
GcloudOutcomes(listed) ==
    { [rc |-> 0, parses |-> TRUE,  items |-> listed],
      [rc |-> 1, parses |-> FALSE, items |-> <<>>],
      [rc |-> 0, parses |-> FALSE, items |-> <<>>] }

\* the records the cloud holds for a kind in this run
Cloud(kind) ==
    IF focus = kind THEN SeqsUpTo(CloudRecords[kind], MaxRecords)
    ELSE {CloudBaseline[kind]}

\* all_resources / all_resources_dr as get_all_resources creates them, with
\* compute_network already set (the timestamp is left out)
NewDocument(region) ==
    [project                |-> PROJECT_ID,
     region                 |-> region,
     compute_network        |-> [name |-> NETWORK_NAME],
     compute_subnetworks    |-> <<>>,
     nat_routers            |-> <<>>,
     vpc_access_connectors  |-> <<>>,
     dataproc_cluster       |-> EmptyDict,
     container_clusters     |-> <<>>,
     cloud_functions        |-> <<>>,
     cloud_run_services     |-> <<>>,
     firewall_rules         |-> <<>>,
     compute_addresses      |-> <<>>,
     redis_instances        |-> <<>>,
     sql_postgres_instances |-> <<>>]

\* a tfvars file on disk
NoFile      == [state |-> "absent",  doc |-> NoDict]
StaleFile   == [state |-> "stale",   doc |-> NoDict]
PartialFile == [state |-> "partial", doc |-> NoDict]
NewFile(document) == [state |-> "new", doc |-> document]

\* one external command run: its exit status, and whether the caller could
\* use its output
GcloudCall(cmd, rc, parses) ==
    [tool |-> "gcloud", cmd |-> cmd, rc |-> rc, parses |-> parses]

GwIdle == cidr = <<>> /\ gateway = None /\ gw_pc = "idle" /\ cidr_case = <<>>

TwIdle ==
    /\ tw_pc = "idle" /\ action = "none" /\ target_site = "none"
    /\ refresh_gcp_resource_vars = FALSE /\ auto_approve = FALSE
    /\ force = FALSE /\ detailed = FALSE /\ config_file = "none"
    /\ environ = NoDict /\ tf_workspaces = <<>> /\ tf_current = <<>>
    /\ current_workspace = None /\ existing_workspaces = <<>>
    /\ prompts = 0 /\ response = None /\ printed = ""
    /\ exit_status = Absent

ApIdle ==
    /\ ap_pc = "idle" /\ resources_file = <<>> /\ replacements = <<>>
    /\ dry_run = FALSE /\ applied = <<>>
    /\ cleaned = None /\ content = <<>> /\ temp_file = NoFile
    /\ ap_exit = Absent

RdIdle ==
    /\ entry = "none" /\ focus = "none" /\ fetched = <<>>
    /\ ip_ranges = <<>> /\ dr_region = None
    /\ subnetwork_name = <<>> /\ all_resources = NoDict /\ all_resources_dr = NoDict
    /\ rd_pc = "idle" /\ error = <<>> /\ file_primary = NoFile /\ file_dr = NoFile
    /\ calls = <<>>

InitReader ==
    /\ GwIdle
    /\ ApIdle
    /\ TwIdle
    /\ entry \in {"reader", "wrapper"}
    /\ focus \in Kinds
    /\ fetched = <<>>
    /\ ip_ranges \in IpRangeConfigs
    /\ dr_region = None
    /\ subnetwork_name = <<>>
    /\ all_resources = NoDict /\ all_resources_dr = NoDict
    /\ rd_pc = "init"
    /\ error = <<>>
    /\ \E f \in {NoFile, StaleFile} : file_primary = f /\ file_dr = f
    /\ calls = <<>>

\* the run ends with the exception whose message is ErrorChain(parts)
Fail(parts) ==
    /\ rd_pc' = "failed"
    /\ error' = ErrorChain(parts)

\* Loading configs/config.json and constructing the reader, with the two
\* checks of _check_project_id_and_network_name.
ConstructReader ==
    /\ rd_pc = "init"
    /\ \E o \in {"ok", "no_config", "no_project", "no_network"} :
         /\ calls' =
               IF o = "no_config" THEN calls
               ELSE IF o = "no_project"
               THEN Append(calls, GcloudCall("projects", 1, FALSE))
               ELSE IF o = "no_network"
               THEN calls \o <<GcloudCall("projects", 0, TRUE),
                              GcloudCall("networks", 1, FALSE)>>
               ELSE calls \o <<GcloudCall("projects", 0, TRUE),
                              GcloudCall("networks", 0, TRUE)>>
         /\ IF o = "ok"
            THEN /\ rd_pc' = "begin"
                 /\ dr_region' = IF entry = "reader" THEN DR_REGION ELSE None
                 /\ subnetwork_name' = Chars("default")
                 /\ UNCHANGED error
            ELSE /\ Fail(<<o>>)
                 /\ UNCHANGED <<dr_region, subnetwork_name>>
    /\ UNCHANGED <<gw_vars, ap_vars, tw_vars, entry, focus, fetched, ip_ranges, all_resources,
                   all_resources_dr, file_primary, file_dr>>

\* get_all_resources up to the first fetch: the two empty documents, with
\* compute_network set in both
BeginAllResources ==
    /\ rd_pc = "begin"
    /\ all_resources' = NewDocument(REGION)
    /\ all_resources_dr' = NewDocument(dr_region)
    /\ rd_pc' = KindOrder[1]
    /\ UNCHANGED <<gw_vars, ap_vars, tw_vars, entry, focus, fetched, ip_ranges, dr_region, subnetwork_name,
                   error, file_primary, file_dr, calls>>

\* A get_* call that swallows its failure and stores two empty collections.
Stored_swallowing(kind, failed, res, ran) ==
    /\ calls' = calls \o ran
    /\ all_resources' =
          [all_resources EXCEPT ![kind] = IF failed \/ res = Raised THEN <<>> ELSE res.p]
    /\ all_resources_dr' =
          [all_resources_dr EXCEPT ![kind] = IF failed \/ res = Raised THEN <<>> ELSE res.d]
    /\ rd_pc' = NextPc(kind)
    /\ UNCHANGED <<error, gw_vars, ap_vars, tw_vars, entry, focus, ip_ranges, dr_region,
                   file_primary, file_dr>>

\* What one get_* call leaves behind: the commands it ran, then either the
\* kind's two collections stored in the documents, or the run aborted by the
\* exception get_all_resources re-raises.
Stored(kind, failed, res, ran) ==
    /\ calls' = calls \o ran
    /\ IF failed \/ res = Raised
       THEN /\ Fail(<<"Error fetching all resources: ", KindError[kind]>>)
            /\ UNCHANGED <<all_resources, all_resources_dr>>
       ELSE /\ all_resources' = [all_resources EXCEPT ![kind] = res.p]
            /\ all_resources_dr' = [all_resources_dr EXCEPT ![kind] = res.d]
            /\ rd_pc' = NextPc(kind)
            /\ UNCHANGED error
    /\ UNCHANGED <<gw_vars, ap_vars, tw_vars, entry, focus, ip_ranges, dr_region,
                   file_primary, file_dr>>

\* One get_* call with a single gcloud command.
Fetch(kind, Listed(_), Transform(_)) ==
    /\ rd_pc = kind
    /\ \E cloud \in Cloud(kind) :
       \E out \in GcloudOutcomes(Listed(cloud)) :
         /\ Stored(kind, out.rc # 0 \/ ~out.parses, Transform(out.items),
                   <<GcloudCall(kind, out.rc, out.parses)>>)
         /\ fetched' = IF focus = kind THEN out.items ELSE fetched

All(cloud) == cloud

\* gcloud functions list --filter 'vpcConnector = "<path of the connector>"'
ListedFunctions(cloud) ==
    SelectSeq(cloud, LAMBDA f :
        f.vpcConnector = LocationPath(REGION, Chars("connectors"),
                                      subnetwork_name \o FUNC_SUFFIX))

\* gcloud compute addresses list --filter 'subnetwork = "<subnetwork URL>"'
ListedAddresses(cloud) ==
    SelectSeq(cloud, LAMBDA a : a.subnetwork = SubnetUrl(subnetwork_name))

\* gcloud container clusters list --filter 'subnetwork = "<name>"'
ListedClusters(cloud) ==
    SelectSeq(cloud, LAMBDA c : c.subnetwork = subnetwork_name)

GetComputeSubnetworks ==
    /\ rd_pc = "compute_subnetworks"
    /\ \E cloud \in Cloud("compute_subnetworks") :
       \E out \in GcloudOutcomes(cloud) :
         /\ Stored("compute_subnetworks", out.rc # 0 \/ ~out.parses,
                   get_compute_subnetworks(out.items, ip_ranges),
                   <<GcloudCall("compute_subnetworks", out.rc, out.parses)>>)
         /\ subnetwork_name' = SubnetworkNameAfter(out.items, subnetwork_name)
         /\ fetched' = IF focus = "compute_subnetworks" THEN out.items
                       ELSE fetched

GetNatRouters ==
    /\ Fetch("nat_routers", All, get_nat_routers)
    /\ UNCHANGED subnetwork_name

GetDataprocClusters ==
    /\ LET Transform(items) == get_dataproc_clusters(items, subnetwork_name)
       IN  Fetch("dataproc_cluster", All,
                 Transform)
    /\ UNCHANGED subnetwork_name

GetCloudFunctions ==
    /\ Fetch("cloud_functions", ListedFunctions, get_cloudfunctions)
    /\ UNCHANGED subnetwork_name

GetCloudRun ==
    /\ LET Transform(items) == get_cloudrun(items, subnetwork_name)
       IN  Fetch("cloud_run_services", All,
                 Transform)
    /\ UNCHANGED subnetwork_name

GetFirewallRules ==
    /\ LET Transform(items) == get_firewall_rules(items, TRUE, ip_ranges)
       IN  Fetch("firewall_rules", All,
                 Transform)
    /\ UNCHANGED subnetwork_name

GetComputeAddresses ==
    /\ Fetch("compute_addresses", ListedAddresses, get_compute_addresses)
    /\ UNCHANGED subnetwork_name

GetContainerClusters ==
    /\ LET Transform(items) == get_container_clusters(items, ip_ranges)
       IN  Fetch("container_clusters", ListedClusters, Transform)
    /\ UNCHANGED subnetwork_name

GetRedisInstances ==
    /\ Fetch("redis_instances", All,
             get_redis_instances)
    /\ UNCHANGED subnetwork_name

\* what `gcloud sql databases list --instance <name>` can give
DbOutcomes ==
    { [rc |-> 0, parses |-> TRUE, names |-> <<Chars("postgres"), Chars("app")>>],
      [rc |-> 1, parses |-> FALSE, names |-> <<>>] }

\* the `gcloud sql databases list` calls made for the fetched instances: one
\* per PostgreSQL instance on the network, in order
RECURSIVE DbCalls(_, _)
DbCalls(items, db_outcomes) ==
    IF Len(items) = 0 THEN <<>>
    ELSE (IF IsPostgresOnNetwork(items[1], NETWORK_NAME)
          THEN <<GcloudCall("sql_databases", db_outcomes[1].rc,
                           db_outcomes[1].parses)>>
          ELSE <<>>)
         \o DbCalls(Tail(items), Tail(db_outcomes))

GetSqlPostgresInstances ==
    /\ rd_pc = "sql_postgres_instances"
    /\ \E cloud \in Cloud("sql_postgres_instances") :
       \E out \in GcloudOutcomes(cloud) :
       \E db_outcomes \in [1..Len(out.items) ->
               IF focus = "sql_postgres_instances" THEN DbOutcomes
               ELSE {o \in DbOutcomes : o.rc = 0}] :
         /\ Stored("sql_postgres_instances", out.rc # 0 \/ ~out.parses,
                   get_sql_postgres_instances(out.items, db_outcomes, NETWORK_NAME),
                   <<GcloudCall("sql_postgres_instances", out.rc, out.parses)>>
                       \o DbCalls(out.items, db_outcomes))
         /\ fetched' = IF focus = "sql_postgres_instances" THEN out.items
                       ELSE fetched
    /\ UNCHANGED subnetwork_name

GetVpcAccessConnectors ==
    /\ Fetch("vpc_access_connectors", All,
             get_vpc_access_connectors)
    /\ UNCHANGED subnetwork_name

\* with open(path, 'w') as f: json.dump(document, f): open can fail and
\* leave the file as it was; open truncates, so a dump that fails leaves a
\* partial file
Written(file, document, o) ==
    IF o = "ok" THEN NewFile(document)
    ELSE IF o = "open_fails" THEN file
    ELSE PartialFile

WriteOutcomes == {"ok", "open_fails", "dump_fails"}

WritePrimary ==
    /\ rd_pc = "write_primary"
    /\ \E o \in WriteOutcomes :
         /\ file_primary' = Written(file_primary, all_resources, o)
         /\ IF o = "ok" THEN rd_pc' = "write_dr" /\ UNCHANGED error
            ELSE Fail(<<o>>)
    /\ UNCHANGED <<gw_vars, ap_vars, tw_vars, entry, focus, fetched, ip_ranges, dr_region, subnetwork_name,
                   all_resources, all_resources_dr, file_dr, calls>>

WriteDr ==
    /\ rd_pc = "write_dr"
    /\ \E o \in WriteOutcomes :
         /\ file_dr' = Written(file_dr, all_resources_dr, o)
         /\ IF o = "ok" THEN rd_pc' = "done" /\ UNCHANGED error
            ELSE Fail(<<o>>)
    /\ UNCHANGED <<gw_vars, ap_vars, tw_vars, entry, focus, fetched, ip_ranges, dr_region, subnetwork_name,
                   all_resources, all_resources_dr, file_primary, calls>>

-----------------------------------------------------------------------------
(* terraform_wrapper.py: one run of main.                                  *)

ENVIRONMENT == Chars("stg")
CLUSTER     == Chars("r1-rai")

TerraformAction == {"init", "plan", "apply", "destroy", "output", "show"}

\* what configs/config.json can hold: a complete entry, an entry without
\* dr_region, no file, text that is not JSON, no entry for the environment,
\* no entry for the cluster
ConfigStates ==
    {"ok", "no_dr_region", "no_file", "bad_json", "no_env", "no_cluster"}

MaxPrompts == 2

Whitespace == {" ", "\n", "\t"}

\* s.lstrip(chars)
RECURSIVE LStrip(_, _)
LStrip(s, chars) ==
    IF Len(s) > 0 /\ s[1] \in chars THEN LStrip(Tail(s), chars) ELSE s

\* s.rstrip()
RECURSIVE RStrip(_)
RStrip(s) ==
    IF Len(s) > 0 /\ s[Len(s)] \in Whitespace
    THEN RStrip(SubSeq(s, 1, Len(s) - 1)) ELSE s

\* s.strip()
Strip(s) == RStrip(LStrip(s, Whitespace))

\* s.lower()
Lower(s) ==
    LET UpperChars == Chars("ABCDEFGHIJKLMNOPQRSTUVWXYZ")
        LowerChars == Chars("abcdefghijklmnopqrstuvwxyz")
    IN
    [i \in 1..Len(s) |->
        IF \E k \in 1..26 : UpperChars[k] = s[i]
        THEN LowerChars[CHOOSE k \in 1..26 : UpperChars[k] = s[i]]
        ELSE s[i]]

\* self.workspace_name
workspace_name == ENVIRONMENT \o <<"-">> \o CLUSTER \o <<"-">> \o Chars(target_site)

\* self.tfvars_file
tfvars_file == IF target_site = "primary" THEN file_primary ELSE file_dr

\* Path.exists()
Exists(file) == file.state # "absent"

\* stdout of `terraform workspace list`: one line per workspace, the
\* selected one marked with an asterisk
WorkspaceListOutput ==
    Join([i \in 1..Len(tf_workspaces) |->
            (IF tf_workspaces[i] = tf_current THEN Chars("* ") ELSE Chars("  "))
                \o tf_workspaces[i]], "\n") \o <<"\n">>

\* _get_workspace_list: the names parsed from the output
ParseWorkspaceList(stdout) ==
    LET lines == Split(Strip(stdout), "\n")
        named == SelectSeq(lines, LAMBDA line :
                    Strip(line) # <<>>
                    /\ Strip(LStrip(Strip(line), {"*", " "})) # <<>>)
    IN  [i \in 1..Len(named) |-> Strip(LStrip(Strip(named[i]), {"*", " "}))]

InSeq(x, seq) == \E i \in 1..Len(seq) : seq[i] = x

\* one terraform command run through _run_command
TfCall(cmd, args, rc) ==
    [tool |-> "terraform", cmd |-> cmd, args |-> args, rc |-> rc, parses |-> TRUE]

\* sys.exit(status) in main
Exit(status) ==
    /\ tw_pc' = "done"
    /\ exit_status' = <<status>>

\* the TF_VAR_* entries _set_environment_variables writes; region stays
\* unset when the DR region is asked for and not configured
TfVars ==
    [TF_VAR_project     |-> PROJECT_ID,
     TF_VAR_environment |-> ENVIRONMENT,
     TF_VAR_cluster     |-> CLUSTER,
     TF_VAR_target_site |-> Chars(target_site),
     TF_VAR_region      |->
        IF target_site = "dr"
        THEN (IF config_file = "no_dr_region" THEN None ELSE DR_REGION)
        ELSE REGION]

\* the worlds terraform can be in when the run starts
TfWorlds ==
    LET default == Chars("default")
        primary == ENVIRONMENT \o <<"-">> \o CLUSTER \o Chars("-primary")
        dr      == ENVIRONMENT \o <<"-">> \o CLUSTER \o Chars("-dr")
    IN  { [workspaces |-> <<default>>, current |-> default],
          [workspaces |-> <<default, primary>>, current |-> default],
          [workspaces |-> <<default, primary>>, current |-> primary],
          [workspaces |-> <<default, dr, primary>>, current |-> dr] }

InitWrapper ==
    /\ GwIdle
    /\ ApIdle
    /\ entry = "wrapper" /\ focus = "none" /\ fetched = <<>>
    /\ ip_ranges = [primary |-> PrimaryRanges, dr |-> DrRanges]
    /\ dr_region = None /\ subnetwork_name = <<>>
    /\ all_resources = NoDict /\ all_resources_dr = NoDict
    /\ rd_pc = "idle" /\ error = <<>>
    /\ \E f \in {NoFile, StaleFile} : file_primary = f /\ file_dr = f
    /\ calls = <<>>
    /\ tw_pc = "main"
    /\ action \in TerraformAction
    /\ target_site \in {"primary", "dr"}
    /\ refresh_gcp_resource_vars \in BOOLEAN
    /\ auto_approve \in {a \in BOOLEAN : a => action \in {"apply", "destroy"}}
    /\ force \in {f \in BOOLEAN : f => action = "init"}
    /\ detailed \in {d \in BOOLEAN : d => action = "plan"}
    /\ config_file \in ConfigStates
    /\ environ = NoDict
    /\ \E w \in TfWorlds : tf_workspaces = w.workspaces /\ tf_current = w.current
    /\ current_workspace = None /\ existing_workspaces = <<>>
    /\ prompts = 0 /\ response = None /\ printed = ""
    /\ exit_status = Absent

\* the message of the exception _load_config or _validate_config raises, in
\* the order the checks are made
ConfigError ==
    IF config_file = "no_file" THEN <<"Configuration file not found: ">>
    ELSE IF config_file = "bad_json"
    THEN <<"Invalid JSON in configuration file: ">>
    ELSE IF config_file = "no_env"
    THEN <<"Environment '", ENVIRONMENT, "' not found in configuration">>
    ELSE IF config_file = "no_cluster"
    THEN <<"Cluster '", CLUSTER, "' not found in environment '", ENVIRONMENT, "'">>
    ELSE <<"Terraform variables file not found: ">>

\* A constructor that does not look for the environment and cluster keys.
TwMain_unvalidated ==
    /\ tw_pc = "main"
    /\ tw_pc' = IF refresh_gcp_resource_vars THEN "generating" ELSE "set_env"
    /\ rd_pc' = IF refresh_gcp_resource_vars THEN "init" ELSE rd_pc
    /\ UNCHANGED <<gw_vars, ap_vars, entry, focus, fetched, ip_ranges, dr_region, subnetwork_name,
                   all_resources, all_resources_dr, error, file_primary,
                   file_dr, calls, action, target_site,
                   refresh_gcp_resource_vars, auto_approve, force, detailed,
                   config_file, environ, tf_workspaces, tf_current,
                   current_workspace, existing_workspaces, prompts, response,
                   printed, exit_status>>

\* main up to the end of _validate_config: the configuration is loaded and
\* checked, and the tfvars file must exist unless it is to be generated
TwMain ==
    /\ tw_pc = "main"
    /\ IF config_file \notin {"ok", "no_dr_region"}
          \/ (~refresh_gcp_resource_vars /\ ~Exists(tfvars_file))
       THEN Exit(1) /\ error' = ConfigError /\ UNCHANGED rd_pc
       ELSE /\ tw_pc' = IF refresh_gcp_resource_vars THEN "generating" ELSE "set_env"
            /\ rd_pc' = IF refresh_gcp_resource_vars THEN "init" ELSE rd_pc
            /\ UNCHANGED <<exit_status, error>>
    /\ UNCHANGED <<gw_vars, ap_vars, entry, focus, fetched, ip_ranges, dr_region, subnetwork_name,
                   all_resources, all_resources_dr, file_primary, file_dr,
                   calls, action, target_site, refresh_gcp_resource_vars,
                   auto_approve, force, detailed, config_file, environ,
                   tf_workspaces, tf_current, current_workspace,
                   existing_workspaces, prompts, response,
                   printed>>

\* A constructor that goes on when _generate_gcp_resources has failed.
TwGenerated_continuing ==
    /\ tw_pc = "generating"
    /\ rd_pc \in {"done", "failed"}
    /\ tw_pc' = "set_env"
    /\ UNCHANGED <<gw_vars, ap_vars, rd_vars, action, target_site,
                   refresh_gcp_resource_vars, auto_approve, force, detailed,
                   config_file, environ, tf_workspaces, tf_current,
                   current_workspace, existing_workspaces, prompts, response,
                   printed, exit_status>>

\* _generate_gcp_resources has returned, or raised its ValueError, which
\* main reports before it exits with 1
TwGenerated ==
    /\ tw_pc = "generating"
    /\ rd_pc \in {"done", "failed"}
    /\ IF rd_pc = "done" THEN tw_pc' = "set_env" /\ UNCHANGED exit_status
       ELSE Exit(1)
    /\ UNCHANGED <<gw_vars, ap_vars, rd_vars, action, target_site,
                   refresh_gcp_resource_vars, auto_approve, force, detailed,
                   config_file, environ, tf_workspaces, tf_current,
                   current_workspace, existing_workspaces, prompts, response,
                   printed>>

\* A constructor that leaves os.environ as it found it.
TwSetEnvironment_skipped ==
    /\ tw_pc = "set_env"
    /\ IF target_site = "dr" /\ config_file = "no_dr_region" THEN Exit(1)
       ELSE tw_pc' = "check_terraform" /\ UNCHANGED exit_status
    /\ UNCHANGED <<gw_vars, ap_vars, rd_vars, action, target_site,
                   refresh_gcp_resource_vars, auto_approve, force, detailed,
                   config_file, environ, tf_workspaces, tf_current,
                   current_workspace, existing_workspaces, prompts, response,
                   printed>>

\* _set_environment_variables; the KeyError for a missing dr_region comes
\* after the other four variables are set
TwSetEnvironment ==
    /\ tw_pc = "set_env"
    /\ environ' = TfVars
    /\ IF target_site = "dr" /\ config_file = "no_dr_region" THEN Exit(1)
       ELSE tw_pc' = "check_terraform" /\ UNCHANGED exit_status
    /\ UNCHANGED <<gw_vars, ap_vars, rd_vars, action, target_site,
                   refresh_gcp_resource_vars, auto_approve, force, detailed,
                   config_file, tf_workspaces, tf_current, current_workspace,
                   existing_workspaces, prompts, response,
                   printed>>

\* what the run leaves alone while it talks to terraform
TwFixed ==
    <<gw_vars, ap_vars, entry, focus, fetched, ip_ranges, dr_region, subnetwork_name,
      all_resources, all_resources_dr, rd_pc, error, file_primary, file_dr,
      action, target_site, refresh_gcp_resource_vars, auto_approve, force,
      detailed, config_file, environ>>

\* An availability check whose failure does not stop the run.
TwCheckTerraform_ignoring ==
    /\ tw_pc = "check_terraform"
    /\ \E rc \in {0, 1} : calls' = Append(calls, TfCall("--version", {}, rc))
    /\ tw_pc' = "workspace_show"
    /\ UNCHANGED <<TwFixed, tf_workspaces, tf_current, current_workspace,
                   existing_workspaces, prompts, response,
                   printed, exit_status>>

\* execute_action: _check_terraform_installed
TwCheckTerraform ==
    /\ tw_pc = "check_terraform"
    /\ \E rc \in {0, 1} :
         /\ calls' = Append(calls, TfCall("--version", {}, rc))
         /\ IF rc # 0 THEN Exit(1)
            ELSE tw_pc' = "workspace_show" /\ UNCHANGED exit_status
    /\ UNCHANGED <<TwFixed, tf_workspaces, tf_current, current_workspace,
                   existing_workspaces, prompts, response,
                   printed>>

\* _create_or_switch_workspace: terraform workspace show
TwWorkspaceShow ==
    /\ tw_pc = "workspace_show"
    /\ \E rc \in {0, 1} :
         /\ calls' = Append(calls, TfCall("workspace show", {}, rc))
         /\ IF rc # 0
            THEN Exit(1) /\ UNCHANGED current_workspace
            ELSE /\ current_workspace' = Strip(tf_current \o <<"\n">>)
                 /\ tw_pc' = "workspace_list"
                 /\ UNCHANGED exit_status
    /\ UNCHANGED <<TwFixed, tf_workspaces, tf_current, existing_workspaces,
                   prompts, response,
                   printed>>

\* _get_workspace_list: terraform workspace list; [] when the command fails
TwWorkspaceList ==
    /\ tw_pc = "workspace_list"
    /\ \E rc \in {0, 1} :
         /\ calls' = Append(calls, TfCall("workspace list", {}, rc))
         /\ existing_workspaces' =
               IF rc # 0 THEN <<>> ELSE ParseWorkspaceList(WorkspaceListOutput)
    /\ tw_pc' = "workspace_resolve"
    /\ UNCHANGED <<TwFixed, tf_workspaces, tf_current, current_workspace,
                   prompts, response,
                   printed, exit_status>>

\* A dispatch that never asks the operator.
AfterWorkspace_unprompted == "run_action"

\* where execute_action goes once the workspace is the target one: the
\* prompt of apply and destroy without --auto-approve, else the command
AfterWorkspace ==
    IF action \in {"apply", "destroy"} /\ ~auto_approve THEN "confirm"
    ELSE "run_action"

\* _create_or_switch_workspace after the list: nothing to do, terraform
\* workspace select, or terraform workspace new.  terraform selects only a
\* workspace that exists and creates only one that does not.
TwWorkspaceResolve ==
    /\ tw_pc = "workspace_resolve"
    /\ IF InSeq(workspace_name, existing_workspaces)
          /\ current_workspace = workspace_name
       THEN /\ tw_pc' = AfterWorkspace
            /\ UNCHANGED <<calls, tf_workspaces, tf_current, exit_status>>
       ELSE LET cmd == IF InSeq(workspace_name, existing_workspaces)
                       THEN "workspace select" ELSE "workspace new"
                can == IF cmd = "workspace select"
                       THEN InSeq(workspace_name, tf_workspaces)
                       ELSE ~InSeq(workspace_name, tf_workspaces)
            IN  \E rc \in {0, 1} :
                  /\ rc = 0 => can
                  /\ calls' = Append(calls, TfCall(cmd, {}, rc))
                  /\ IF rc # 0
                     THEN Exit(1) /\ UNCHANGED <<tf_workspaces, tf_current>>
                     ELSE /\ tf_current' = workspace_name
                          /\ tf_workspaces' =
                                IF cmd = "workspace new"
                                THEN Append(tf_workspaces, workspace_name)
                                ELSE tf_workspaces
                          /\ tw_pc' = AfterWorkspace
                          /\ UNCHANGED exit_status
    /\ UNCHANGED <<TwFixed, current_workspace, existing_workspaces, prompts, response,
                   printed>>

\* what the user can type at the prompt
Responses ==
    { Chars("y"), Chars(" YES "), Chars("n"), Chars("No"), Chars("maybe"), <<>> }

\* _confirm_action: one turn of the prompt loop.  input() can also raise
\* EOFError, which main reports before it exits with 1.
TwConfirm ==
    /\ tw_pc = "confirm"
    /\ prompts' = prompts + 1
    /\ \/ \E typed \in Responses :
            /\ response' = Strip(Lower(typed))
            /\ IF response' \in {Chars("y"), Chars("yes")}
               THEN tw_pc' = "run_action" /\ UNCHANGED exit_status
               ELSE IF response' \in {Chars("n"), Chars("no")}
               THEN Exit(1)
               ELSE /\ prompts < MaxPrompts
                    /\ UNCHANGED <<tw_pc, exit_status>>
       \/ Exit(1) /\ UNCHANGED response
    /\ UNCHANGED <<TwFixed, calls, tf_workspaces, tf_current, current_workspace,
                   existing_workspaces, printed>>

\* the arguments of the action's command
ActionArgs ==
    (IF action = "init" /\ force THEN {"-reconfigure"} ELSE {})
    \cup (IF action \in {"plan", "apply", "destroy"} /\ Exists(tfvars_file)
          THEN {"-var-file"} ELSE {})
    \cup (IF action = "plan" /\ detailed THEN {"-detailed-exitcode"} ELSE {})
    \cup (IF action \in {"apply", "destroy"} /\ auto_approve
          THEN {"-auto-approve"} ELSE {})

\* the statuses the action's command can end with: 0, 1, the status of a
\* killed process, and for plan with -detailed-exitcode 2
ActionStatuses ==
    {0, 1, -9} \cup (IF action = "plan" /\ detailed THEN {2} ELSE {})

\* A result that counts only status 0 as success, for every action.
ActionSucceeded_zero_only(rc) == rc = 0

\* what _run_terraform_<action> returns for the status of its command
ActionSucceeded(rc) ==
    IF action = "plan" THEN rc \in {0, 2} ELSE rc = 0

\* the outcome line _run_terraform_<action> prints for the status of its
\* command
ActionMessage(rc) ==
    IF action = "plan"
    THEN (IF rc = 0 THEN "completed successfully - no changes needed"
          ELSE IF rc = 1 THEN "failed"
          ELSE IF rc = 2 THEN "completed successfully - changes detected"
          ELSE "Unexpected return code")
    ELSE IF rc # 0 THEN "Error running" ELSE "completed successfully"

\* execute_action: the action's command, then main's exit
TwRunAction ==
    /\ tw_pc = "run_action"
    /\ \E rc \in ActionStatuses :
         /\ calls' = Append(calls, TfCall(action, ActionArgs, rc))
         /\ printed' = ActionMessage(rc)
         /\ Exit(IF ActionSucceeded(rc) THEN 0 ELSE 1)
    /\ UNCHANGED <<TwFixed, tf_workspaces, tf_current, current_workspace,
                   existing_workspaces, prompts, response>>

-----------------------------------------------------------------------------
(* The gateway calculator on its own: one call on one input.               *)

\* Octets the inputs are built from, per position.
Octets == <<{10, 192, 255}, {0, 120, 255}, {0, 46, 255},
            {0, 1, 5, 128, 254, 255}>>

\* How a valid input writes its prefix length.
Forms == {"prefix", "zprefix", "netmask", "hostmask", "bare"}

\* A valid IPv4 CIDR string is written from its octets and prefix length:
\* a.b.c.d/p, a.b.c.d/0p, a.b.c.d/<netmask>, a.b.c.d/<hostmask>, or a.b.c.d
\* alone (a single address, prefix length 32).
CidrText(octets, p, form) ==
    LET a == Join([i \in 1..4 |-> StrOf(octets[i])], ".") IN
    CASE form = "prefix"   -> a \o <<"/">> \o StrOf(p)
      [] form = "zprefix"  -> a \o <<"/", "0">> \o StrOf(p)
      [] form = "netmask"  ->
            a \o <<"/">> \o Join([i \in 1..4 |-> StrOf(NetmaskOf(p)[i])], ".")
      [] form = "hostmask" ->
            a \o <<"/">> \o Join([i \in 1..4 |-> StrOf(255 - NetmaskOf(p)[i])], ".")
      [] form = "bare"     -> a

\* The valid inputs, each with what it denotes.  A hostmask of all zeros or
\* all ones reads as a netmask, so the hostmask form is used for 1..31 only.
ValidCases ==
    { [valid |-> TRUE, octets |-> <<o1, o2, o3, o4>>, prefix |-> p, form |-> f,
       text |-> CidrText(<<o1, o2, o3, o4>>, p, f)] :
        o1 \in Octets[1], o2 \in Octets[2], o3 \in Octets[3], o4 \in Octets[4],
        p \in 0..32, f \in Forms \ {"hostmask", "bare"} }
    \cup
    { [valid |-> TRUE, octets |-> <<o1, o2, o3, o4>>, prefix |-> p, form |-> "hostmask",
       text |-> CidrText(<<o1, o2, o3, o4>>, p, "hostmask")] :
        o1 \in Octets[1], o2 \in Octets[2], o3 \in Octets[3], o4 \in Octets[4],
        p \in 1..31 }
    \cup
    { [valid |-> TRUE, octets |-> <<o1, o2, o3, o4>>, prefix |-> 32, form |-> "bare",
       text |-> CidrText(<<o1, o2, o3, o4>>, 32, "bare")] :
        o1 \in Octets[1], o2 \in Octets[2], o3 \in Octets[3], o4 \in Octets[4] }

\* Strings that are no IPv4 network.
InvalidTexts ==
    { Chars(""), Chars("abc"), Chars("N/A"), Chars("/24"),
      Chars("10.0.0/24"), Chars("10.0.0.0.0/24"), Chars("10..0.0/24"),
      Chars("10.0.0.256/24"), Chars("1000.0.0.0/8"), Chars("010.0.0.0/24"),
      Chars("10.0.0.0/33"), Chars("10.0.0.0/"), Chars("10.0.0.0/24/1"),
      Chars("10.0.0.0/+24"), Chars("10.0.0.0/-1"), Chars("10.0.0.0/a"),
      Chars(" 10.0.0.0/24"), Chars("10.0.0.0/24 "),
      Chars("10.0.0.0/255.0.255.0"), Chars("10.0.0.0/0.255.255.254"),
      Chars("10.0.0.0/1.2.3") }

InvalidCases ==
    { [valid |-> FALSE, octets |-> <<>>, prefix |-> 0, form |-> "invalid",
       text |-> t] : t \in InvalidTexts }

CidrCases == ValidCases \cup InvalidCases

InitGateway ==
    /\ \E c \in CidrCases : cidr_case = c /\ cidr = c.text
    /\ gateway = None
    /\ gw_pc = "call"
    /\ RdIdle
    /\ TwIdle
    /\ ApIdle

\* reader._get_gateway_address(cidr)
GatewayCall ==
    /\ gw_pc = "call"
    /\ gateway' = _get_gateway_address(cidr)
    /\ gw_pc' = "ret"
    /\ UNCHANGED <<cidr, cidr_case, rd_vars, tw_vars, ap_vars>>

vars == <<gw_vars, rd_vars, tw_vars, ap_vars>>

NextGateway == GatewayCall

SpecGateway == InitGateway /\ [][NextGateway]_vars

-----------------------------------------------------------------------------
(* The run that generates the tfvars files, from either entry point.       *)

NextReader ==
    \/ ConstructReader
    \/ BeginAllResources
    \/ GetComputeSubnetworks
    \/ GetNatRouters
    \/ GetDataprocClusters
    \/ GetCloudFunctions
    \/ GetCloudRun
    \/ GetFirewallRules
    \/ GetComputeAddresses
    \/ GetContainerClusters
    \/ GetRedisInstances
    \/ GetSqlPostgresInstances
    \/ GetVpcAccessConnectors
    \/ WritePrimary
    \/ WriteDr

SpecReader == InitReader /\ [][NextReader]_vars

-----------------------------------------------------------------------------
(* A run of the Terraform wrapper, generating the tfvars files first when  *)
(* asked to.                                                               *)

NextWrapper ==
    \/ TwMain
    \/ ConstructReader
    \/ BeginAllResources
    \/ GetComputeSubnetworks
    \/ GetNatRouters
    \/ GetDataprocClusters
    \/ GetCloudFunctions
    \/ GetCloudRun
    \/ GetFirewallRules
    \/ GetComputeAddresses
    \/ GetContainerClusters
    \/ GetRedisInstances
    \/ GetSqlPostgresInstances
    \/ GetVpcAccessConnectors
    \/ WritePrimary
    \/ WriteDr
    \/ TwGenerated
    \/ TwSetEnvironment
    \/ TwCheckTerraform
    \/ TwWorkspaceShow
    \/ TwWorkspaceList
    \/ TwWorkspaceResolve
    \/ TwConfirm
    \/ TwRunAction

SpecWrapper == InitWrapper /\ [][NextWrapper]_vars

-----------------------------------------------------------------------------
(* apply_resources.py: a run of main on one resources file and one         *)
(* replacements file.                                                      *)

MaxDoc == 3
MaxPairs == 1

\* the texts of the resources file, over a letter, the percent sign and
\* the newline
Documents == SeqsUpTo({"a", "%", "\n"}, MaxDoc)

\* what load_replacements returns: entries whose 'search' and 'replace' key
\* hold a text, the empty text, or are missing (None)
ReplacementLists ==
    SeqsUpTo([search  : {None, <<>>, Chars("a"), Chars("%a")},
              replace : {None, <<>>, Chars("a"), Chars("%")}], MaxPairs)

\* A str.replace that stops after the first occurrence.
RECURSIVE Replace_first_only(_, _, _)
Replace_first_only(s, old, new) ==
    IF old = <<>> THEN new \o s
    ELSE IF Len(s) < Len(old) THEN s
    ELSE IF StartsWith(s, old)
         THEN new \o SubSeq(s, Len(old) + 1, Len(s))
         ELSE <<Head(s)>> \o Replace_first_only(Tail(s), old, new)

\* s.replace(old, new): the occurrences of old are found from left to
\* right, each search resuming after the occurrence before it; an empty
\* old occurs before every character and at the end
RECURSIVE Replace(_, _, _)
Replace(s, old, new) ==
    IF old = <<>>
    THEN IF s = <<>> THEN new
         ELSE new \o <<Head(s)>> \o Replace(Tail(s), old, new)
    ELSE IF Len(s) < Len(old) THEN s
    ELSE IF StartsWith(s, old)
         THEN new \o Replace(SubSeq(s, Len(old) + 1, Len(s)), old, new)
         ELSE <<Head(s)>> \o Replace(Tail(s), old, new)

\* An apply_replacements that replaces whatever the pair holds.
RECURSIVE apply_replacements_unguarded(_, _)
apply_replacements_unguarded(text, pairs) ==
    IF pairs = <<>> THEN text
    ELSE LET search  == StrOr(Head(pairs).search, <<>>)
             replace == StrOr(Head(pairs).replace, <<>>)
         IN  apply_replacements_unguarded(Replace(text, search, replace),
                                          Tail(pairs))

\* apply_replacements(content, replacements)
RECURSIVE apply_replacements(_, _)
apply_replacements(text, pairs) ==
    IF pairs = <<>> THEN text
    ELSE LET search  == StrOr(Head(pairs).search, <<>>)
             replace == StrOr(Head(pairs).replace, <<>>)
             next    == IF search # <<>> /\ replace # <<>>
                        THEN Replace(text, search, replace)
                        ELSE text
         IN  apply_replacements(next, Tail(pairs))

\* re.sub(r'%$', '', s, flags=re.MULTILINE): a '%' matches when it is the
\* last character of s or the character before a newline
RECURSIVE SubPercentAtLineEnd(_)
SubPercentAtLineEnd(s) ==
    IF s = <<>> THEN <<>>
    ELSE IF Head(s) = "%" /\ (Len(s) = 1 \/ s[2] = "\n")
         THEN SubPercentAtLineEnd(Tail(s))
         ELSE <<Head(s)>> \o SubPercentAtLineEnd(Tail(s))

\* clean_yaml(content)
clean_yaml(text) ==
    LET subbed == SubPercentAtLineEnd(text)
    IN  IF EndsWith(subbed, <<"\n">>) THEN subbed ELSE subbed \o <<"\n">>

InitApplier ==
    /\ GwIdle
    /\ RdIdle
    /\ TwIdle
    /\ ap_pc = "main"
    /\ resources_file \in Documents
    /\ dry_run \in BOOLEAN
    /\ replacements \in ReplacementLists
    /\ cleaned = None
    /\ content = <<>>
    /\ temp_file = NoFile
    /\ applied = <<>>
    /\ ap_exit = Absent

ApFixed == <<gw_vars, rd_vars, tw_vars, resources_file, dry_run, replacements>>

\* main up to clean_yaml: one of the two files is missing or kubectl is not
\* installed (exit 1), or the resources file is read and cleaned
ApMain ==
    /\ ap_pc = "main"
    /\ \/ /\ ap_pc' = "done"
          /\ ap_exit' = <<1>>
          /\ UNCHANGED <<cleaned, content>>
       \/ /\ cleaned' = clean_yaml(resources_file)
          /\ content' = cleaned'
          /\ ap_pc' = "replace"
          /\ UNCHANGED ap_exit
    /\ UNCHANGED <<ApFixed, temp_file, applied>>

\* main: load_replacements, apply_replacements
ApReplace ==
    /\ ap_pc = "replace"
    /\ content' = apply_replacements(content, replacements)
    /\ ap_pc' = "write"
    /\ UNCHANGED <<ApFixed, cleaned, temp_file, applied, ap_exit>>

\* main: NamedTemporaryFile(delete=False) creates the file and
\* tmp.write(content) fills it; a write that fails (no space left) leaves
\* the file behind and ends the run with the uncaught exception, before the
\* try statement is entered
ApWrite ==
    /\ ap_pc = "write"
    /\ \E o \in {"ok", "write_fails"} :
          IF o = "ok"
          THEN /\ temp_file' = NewFile(content)
               /\ ap_pc' = "kubectl"
               /\ UNCHANGED ap_exit
          ELSE /\ temp_file' = PartialFile
               /\ ap_pc' = "done"
               /\ ap_exit' = <<1>>
    /\ UNCHANGED <<ApFixed, cleaned, content, applied>>

\* main: apply_to_k8s in try (kubectl apply -f <temporary file>, with
\* --dry-run=client when asked; sys.exit(1) when kubectl fails), os.unlink
\* in finally
ApApplyToK8s ==
    /\ ap_pc = "kubectl"
    /\ applied' = Append(applied, [doc |-> temp_file.doc, dry_run |-> dry_run])
    /\ \E returncode \in {0, 1} :
          ap_exit' = IF returncode = 0 THEN <<0>> ELSE <<1>>
    /\ temp_file' = NoFile
    /\ ap_pc' = "done"
    /\ UNCHANGED <<ApFixed, cleaned, content>>

NextApplier ==
    \/ ApMain
    \/ ApReplace
    \/ ApWrite
    \/ ApApplyToK8s

SpecApplier == InitApplier /\ [][NextApplier]_vars

-----------------------------------------------------------------------------
(* Claims about the gateway calculator (SpecGateway).                      *)

\* The network address of a valid case, from its octets and prefix length:
\* each octet with its host bits cleared.
CaseNetwork(c) ==
    [i \in 1..4 |->
        LET nb == IF c.prefix >= 8 * i THEN 8
                  ELSE IF c.prefix <= 8 * (i - 1) THEN 0
                  ELSE c.prefix - 8 * (i - 1)
        IN  (c.octets[i] \div Pow2(8 - nb)) * Pow2(8 - nb)]

\* a.b.c.(d+1) in dotted-decimal form
DottedPlusOne(n) ==
    StrOf(n[1]) \o <<".">> \o StrOf(n[2]) \o <<".">> \o StrOf(n[3]) \o <<".">>
        \o StrOf(n[4] + 1)

\* C3: for every valid IPv4 CIDR string with prefix length <= 30 (host bits
\* zero or not), _get_gateway_address returns the network address plus one in
\* dotted-decimal form; e.g. 10.120.46.0/28 -> 10.120.46.1, 10.0.0.0/24 ->
\* 10.0.0.1.
C3_GatewayIsNetworkPlusOne ==
    gw_pc = "ret" =>
        /\ (cidr_case.valid /\ cidr_case.prefix <= 30)
               => gateway = DottedPlusOne(CaseNetwork(cidr_case))
        /\ cidr = Chars("10.120.46.0/28") => gateway = Chars("10.120.46.1")
        /\ cidr = Chars("10.0.0.0/24") => gateway = Chars("10.0.0.1")
        /\ cidr = Chars("192.120.46.5/24") => gateway = Chars("192.120.46.1")
        /\ cidr = Chars("255.255.255.254/30") => gateway = Chars("255.255.255.253")

\* C3 witness: a call returned for a /24 whose host bits are not zero.
C3_Witness ==
    /\ gw_pc = "ret"
    /\ cidr = Chars("10.120.46.5/24")
    /\ gateway = Chars("10.120.46.1")

\* C4 as claimed: prefix length 31 or 32, or an unparseable string, gives "N/A".
C4_Original ==
    (gw_pc = "ret" /\ (~cidr_case.valid \/ cidr_case.prefix \in {31, 32}))
        => gateway = NA

\* C4 amended: prefix length 32 (also a bare address, also 255.255.255.255
\* whose successor does not exist) or an unparseable string (the empty one
\* included) gives "N/A", and the call always returns a string; for prefix
\* length 31 the result is the network address plus one, which is a member.
C4_SentinelFor32AndInvalid ==
    gw_pc = "ret" =>
        /\ gateway # None
        /\ (~cidr_case.valid \/ cidr_case.prefix = 32) => gateway = NA
        /\ (cidr_case.valid /\ cidr_case.prefix = 31)
               => gateway = DottedPlusOne(CaseNetwork(cidr_case))
        /\ cidr = Chars("") => gateway = NA

\* C4 witness: a call returned "N/A" for a /32.
C4_Witness ==
    /\ gw_pc = "ret"
    /\ cidr_case.valid /\ cidr_case.prefix = 32 /\ cidr_case.form = "prefix"
    /\ gateway = NA


-----------------------------------------------------------------------------
(* The documents and the files of a generating run.                        *)

\* get_all_resources has returned its two documents
Returned == rd_pc \in {"write_primary", "write_dr", "done"}

\* the kinds whose collection is a list of records with a name
ListKinds ==
    {"compute_subnetworks", "cloud_functions", "cloud_run_services",
     "firewall_rules", "compute_addresses", "container_clusters",
     "redis_instances", "sql_postgres_instances", "vpc_access_connectors"}

\* the i-th command failed: a non-zero exit, or output that does not parse
FailedCall(i) == calls[i].rc # 0 \/ ~calls[i].parses

\* neither tfvars file has been touched by this run
FilesUntouched ==
    /\ file_primary \in {NoFile, StaleFile}
    /\ file_dr = file_primary

\* C1: when the inventory command of a resource kind fails (non-zero exit or
\* unparseable output), it is the last command of the run, the run has
\* aborted with an error naming that kind, and neither tfvars file has been
\* written; from either entry point.
C1_FetchFailureAborts ==
    \A i \in 1..Len(calls) :
        (calls[i].cmd \in Kinds /\ FailedCall(i)) =>
            /\ i = Len(calls)
            /\ rd_pc = "failed"
            /\ error = ErrorChain(<<"Error fetching all resources: ",
                                    KindError[calls[i].cmd]>>)
            /\ FilesUntouched

C1_Witness ==
    /\ entry = "wrapper"
    /\ rd_pc = "failed"
    /\ Len(calls) > 0
    /\ calls[Len(calls)].cmd = "firewall_rules"
    /\ calls[Len(calls)].rc = 0 /\ ~calls[Len(calls)].parses
    /\ error = <<"Failed to generate GCP resources: ",
                 "Error fetching all resources: ",
                 "Error getting firewall rules: ">>
    /\ file_primary = StaleFile /\ file_dr = StaleFile

\* C2: writing is all-or-nothing: once the run has ended, no tfvars file is
\* left partially written, and a newly written primary file never stands
\* next to a DR file that was not written.
C2_AllOrNothing ==
    rd_pc \in {"failed", "done"} =>
        /\ file_primary.state # "partial"
        /\ file_dr.state # "partial"
        /\ file_primary.state = "new" => file_dr.state = "new"

\* the DR collection of a list kind names each record after its primary
SuffixedNames(kind) ==
    /\ Len(all_resources_dr[kind]) = Len(all_resources[kind])
    /\ \A i \in 1..Len(all_resources[kind]) :
          all_resources_dr[kind][i].name = all_resources[kind][i].name \o DR_SUFFIX

\* the DR router map: each key and each router name is the primary's + "-dr"
SuffixedRouters ==
    /\ Len(all_resources_dr.nat_routers) = Len(all_resources.nat_routers)
    /\ \A i \in 1..Len(all_resources.nat_routers) :
          /\ all_resources_dr.nat_routers[i][1] =
                all_resources.nat_routers[i][1] \o DR_SUFFIX
          /\ all_resources_dr.nat_routers[i][2].name =
                all_resources.nat_routers[i][2].name \o DR_SUFFIX

SuffixedDataproc ==
    IF all_resources.dataproc_cluster = EmptyDict
    THEN all_resources_dr.dataproc_cluster = EmptyDict
    ELSE all_resources_dr.dataproc_cluster.cluster_name =
            all_resources.dataproc_cluster.cluster_name \o DR_SUFFIX

\* C5 as stated: in the returned documents every kind, the network
\* included, names its DR record <primary name>-dr.
C5_Original ==
    Returned =>
        /\ \A kind \in ListKinds : SuffixedNames(kind)
        /\ SuffixedRouters
        /\ SuffixedDataproc
        /\ all_resources_dr.compute_network.name =
              all_resources.compute_network.name \o DR_SUFFIX

\* C5: in the returned documents every kind except compute_network names
\* its DR record <primary name>-dr (cluster_name for the Dataproc cluster);
\* compute_network carries the same network name in both documents.
C5_DrNameIsPrimaryPlusSuffix ==
    Returned =>
        /\ \A kind \in ListKinds : SuffixedNames(kind)
        /\ SuffixedRouters
        /\ SuffixedDataproc
        /\ all_resources_dr.compute_network.name = all_resources.compute_network.name

C5_Witness ==
    /\ Returned
    /\ focus = "redis_instances"
    /\ Len(all_resources.redis_instances) = MaxRecords
    /\ all_resources.redis_instances[1].name = Chars("redis1")
    /\ all_resources_dr.redis_instances[1].name = Chars("redis1-dr")
    /\ all_resources_dr.dataproc_cluster # EmptyDict
    /\ Len(all_resources_dr.nat_routers) > 0

\* the documents exist and hold what the kinds fetched so far stored
Building == rd_pc \in Kinds \/ Returned

\* C6: for every list-valued and map-valued kind the primary and the DR
\* collection have the same number of records, and the i-th DR record comes
\* from the source record of the i-th primary record (it carries that
\* record's name with "-dr").
C6_OneDrPerPrimary ==
    Building =>
        /\ \A kind \in ListKinds : SuffixedNames(kind)
        /\ SuffixedRouters

C6_Witness ==
    /\ rd_pc = NextPc("firewall_rules")
    /\ Len(all_resources.firewall_rules) = MaxRecords
    /\ Len(all_resources_dr.firewall_rules) = MaxRecords
    /\ all_resources.firewall_rules[1].name # all_resources.firewall_rules[2].name

\* what the `dr` branch of ip_ranges gives for its keys: the configured
\* range, or '' / None for a key or a branch that is not configured
DrBranchValues ==
    { IpGet(ip_ranges, "dr", k) : k \in IpRangeKeys }
        \cup { IpGetStr(ip_ranges, "dr", k) : k \in IpRangeKeys }

DrSubnetsFromDrBranch ==
    \A i \in 1..Len(all_resources_dr.compute_subnetworks) :
        LET sn == all_resources_dr.compute_subnetworks[i] IN
        /\ sn.ip_cidr_range \in
              { IpGetStr(ip_ranges, "dr", "subnet_ip_cidr_range"),
                IpGetStr(ip_ranges, "dr", "vpc_connector_ip_cidr_range") }
        /\ sn.gateway_address = _get_gateway_address(sn.ip_cidr_range)
        /\ \A j \in 1..Len(sn.secondary_ip_range) :
              sn.secondary_ip_range[j].ip_cidr_range \in
                  { IpGetStr(ip_ranges, "dr", "secondary_ip_range_pod"),
                    IpGetStr(ip_ranges, "dr", "secondary_ip_range_svc") }

DrMastersFromDrBranch ==
    \A i \in 1..Len(all_resources_dr.container_clusters) :
        LET config == all_resources_dr.container_clusters[i].private_cluster_config
        IN  config # NoDict =>
                config.master_ipv4_cidr_block =
                    IpGetStr(ip_ranges, "dr", "gke_master_ip_cidr_range")

DrSourceRangesFromDrBranch ==
    \A i \in 1..Len(all_resources_dr.firewall_rules) :
        \A j \in 1..Len(all_resources_dr.firewall_rules[i].source_ranges) :
            all_resources_dr.firewall_rules[i].source_ranges[j] \in DrBranchValues

DrDestinationRangesFromDrBranch ==
    \A i \in 1..Len(all_resources_dr.firewall_rules) :
        \A j \in 1..Len(all_resources_dr.firewall_rules[i].destination_ranges) :
            all_resources_dr.firewall_rules[i].destination_ranges[j]
                \in DrBranchValues

\* C7: in the DR document every IP/CIDR field (subnetwork range and
\* gateway, secondary ranges, GKE master block, firewall source and
\* destination ranges) holds a value of the `dr` branch of ip_ranges, never
\* one of the primary branch or of the fetched record.
C7_DrFieldsFromDrBranch ==
    Building =>
        /\ DrSubnetsFromDrBranch
        /\ DrMastersFromDrBranch
        /\ DrSourceRangesFromDrBranch
        /\ DrDestinationRangesFromDrBranch

\* the gateways the scenario of C8 names, "N/A" for a range not configured
C8_Gateway(range) ==
    IF range = Chars("10.1.0.0/24") THEN Chars("10.1.0.1")
    ELSE IF range = Chars("10.2.0.0/24") THEN Chars("10.2.0.1")
    ELSE NA

\* C8: for a fetched subnetwork with a secondary range, the primary entry
\* has the primary subnet range and the gateway computed from it, and the DR
\* entry is named <name>-dr with the DR subnet range and its gateway
\* (10.1.0.0/24 -> 10.1.0.1, 10.2.0.0/24 -> 10.2.0.1).
C8_SubnetRangesAndGateways ==
    Building =>
        \A i \in 1..Len(all_resources.compute_subnetworks) :
            LET sn == all_resources.compute_subnetworks[i]
                dr == all_resources_dr.compute_subnetworks[i]
            IN  sn.secondary_ip_range # <<>> =>
                  /\ sn.ip_cidr_range =
                        IpGetStr(ip_ranges, "primary", "subnet_ip_cidr_range")
                  /\ sn.gateway_address = C8_Gateway(sn.ip_cidr_range)
                  /\ dr.name = sn.name \o DR_SUFFIX
                  /\ dr.ip_cidr_range =
                        IpGetStr(ip_ranges, "dr", "subnet_ip_cidr_range")
                  /\ dr.gateway_address = C8_Gateway(dr.ip_cidr_range)

C8_Witness ==
    /\ rd_pc = "nat_routers"
    /\ Len(all_resources.compute_subnetworks) > 0
    /\ all_resources.compute_subnetworks[1].name = Chars("sn2")
    /\ Len(all_resources.compute_subnetworks[1].secondary_ip_range) = 1
    /\ all_resources.compute_subnetworks[1].ip_cidr_range = Chars("10.1.0.0/24")
    /\ all_resources.compute_subnetworks[1].gateway_address = Chars("10.1.0.1")
    /\ all_resources_dr.compute_subnetworks[1].name = Chars("sn2-dr")
    /\ all_resources_dr.compute_subnetworks[1].ip_cidr_range = Chars("10.2.0.0/24")
    /\ all_resources_dr.compute_subnetworks[1].gateway_address = Chars("10.2.0.1")

-----------------------------------------------------------------------------
(* The commands of a wrapper run.                                          *)

IsTerraform(i) == calls[i].tool = "terraform"

WorkspaceCommands ==
    {"workspace show", "workspace list", "workspace select", "workspace new"}

\* the place of a terraform command in execute_action: the availability
\* check, the three steps of workspace resolution, the action
CommandRank(cmd) ==
    IF cmd = "--version" THEN 1
    ELSE IF cmd = "workspace show" THEN 2
    ELSE IF cmd = "workspace list" THEN 3
    ELSE IF cmd \in {"workspace select", "workspace new"} THEN 4
    ELSE 5

\* the i-th command is a terraform command that failed: for plan any
\* status but 0 and 2, for the others any status but 0
TerraformFailed(i) ==
    /\ IsTerraform(i)
    /\ IF calls[i].cmd = "plan" THEN calls[i].rc \notin {0, 2}
       ELSE calls[i].rc # 0

\* C9: a run goes through the availability check, workspace resolution and
\* the action in that order and ends with exactly one of success (exit 0)
\* and failure (exit 1): terraform commands are issued in that order, a
\* workspace command only after a successful availability check, an action
\* command only after a successful workspace resolution, and success only
\* after a successful action command.
C9_PhasesInOrder ==
    /\ \A i, j \in 1..Len(calls) :
          (i < j /\ IsTerraform(i) /\ IsTerraform(j)) =>
              CommandRank(calls[i].cmd) < CommandRank(calls[j].cmd)
    /\ \A i \in 1..Len(calls) :
          (IsTerraform(i) /\ calls[i].cmd \in WorkspaceCommands) =>
              \E j \in 1..(i - 1) :
                  IsTerraform(j) /\ calls[j].cmd = "--version" /\ calls[j].rc = 0
    /\ \A i \in 1..Len(calls) :
          (IsTerraform(i) /\ calls[i].cmd \in TerraformAction) =>
              /\ \E j \in 1..(i - 1) :
                    IsTerraform(j) /\ calls[j].cmd = "workspace show"
                        /\ calls[j].rc = 0
              /\ \/ \E j \in 1..(i - 1) :
                        /\ IsTerraform(j)
                        /\ calls[j].cmd \in {"workspace select", "workspace new"}
                        /\ calls[j].rc = 0
                 \/ /\ InSeq(workspace_name, existing_workspaces)
                    /\ current_workspace = workspace_name
    /\ exit_status \in {Absent, <<0>>, <<1>>}
    /\ tw_pc = "done" <=> exit_status # Absent
    /\ exit_status = <<0>> =>
          /\ Len(calls) > 0
          /\ IsTerraform(Len(calls))
          /\ calls[Len(calls)].cmd = action
          /\ ~TerraformFailed(Len(calls))

C9_Witness ==
    /\ tw_pc = "done" /\ exit_status = <<0>>
    /\ action = "apply" /\ prompts = MaxPrompts
    /\ Len(calls) = 5
    /\ calls[4].cmd = "workspace new" /\ calls[4].rc = 0
    /\ calls[5].cmd = "apply" /\ calls[5].rc = 0

\* C10: no terraform command is retried, and a terraform command that
\* failed is the last command of the run, which exits with failure.
C10_FailureIsTerminal ==
    /\ \A i, j \in 1..Len(calls) :
          (i < j /\ IsTerraform(i) /\ IsTerraform(j)) => calls[i].cmd # calls[j].cmd
    /\ \A i \in 1..Len(calls) :
          TerraformFailed(i) =>
              /\ i = Len(calls)
              /\ tw_pc = "done" => exit_status = <<1>>

-----------------------------------------------------------------------------
(* Confirmation of the destructive actions.                                *)

\* the terraform apply / terraform destroy commands that were run
DestructiveCalls ==
    { i \in 1..Len(calls) : IsTerraform(i) /\ calls[i].cmd \in {"apply", "destroy"} }

\* C11: terraform apply or terraform destroy is run only with --auto-approve
\* or after the operator answered the prompt with y / yes; after an answer of
\* n / no the command is never run and the run ends reporting failure.
C11_DestructiveNeedsConsent ==
    /\ DestructiveCalls # {} =>
          \/ auto_approve
          \/ response \in {Chars("y"), Chars("yes")}
    /\ response \in {Chars("n"), Chars("no")} =>
          /\ DestructiveCalls = {}
          /\ tw_pc = "done"
          /\ exit_status = <<1>>

C11_Witness ==
    /\ ~auto_approve
    /\ action = "destroy"
    /\ response = Chars("yes")
    /\ DestructiveCalls # {}

-----------------------------------------------------------------------------
(* Workspace selection.                                                    *)

\* the `workspace select` / `workspace new` commands that were run
SelectionCalls ==
    { i \in 1..Len(calls) :
        IsTerraform(i) /\ calls[i].cmd \in {"workspace select", "workspace new"} }

\* the target workspace existed when the selection started: a successful
\* `workspace new` is the only thing that adds it
TargetExisted ==
    /\ InSeq(workspace_name, tf_workspaces)
    /\ \A i \in SelectionCalls : ~(calls[i].cmd = "workspace new" /\ calls[i].rc = 0)

\* the selection has read the list, so it has decided what to issue
SelectionDecided ==
    tw_pc \in {"confirm", "run_action"}
    \/ (tw_pc = "done" /\ \E i \in 1..Len(calls) :
            IsTerraform(i) /\ calls[i].cmd \in {"workspace select", "workspace new", action})

\* C12: for a workspace that exists the selection issues `workspace select`
\* and never `workspace new`; for one that does not exist it issues
\* `workspace new`; for the active one it issues neither, so a selection
\* right after a successful one issues no command.
C12_SelectionIdempotent ==
    /\ \A i \in SelectionCalls :
          /\ calls[i].cmd = "workspace new" => ~TargetExisted
          /\ calls[i].cmd = "workspace select" => TargetExisted
          /\ current_workspace # workspace_name
    /\ SelectionDecided =>
          /\ (TargetExisted /\ current_workspace # workspace_name) =>
                \E i \in SelectionCalls : calls[i].cmd = "workspace select"
          /\ ~TargetExisted =>
                \E i \in SelectionCalls : calls[i].cmd = "workspace new"

-----------------------------------------------------------------------------
(* The result of the action's command.                                     *)

\* the run has ended with the action's command
ActionRan ==
    /\ tw_pc = "done" /\ Len(calls) > 0
    /\ IsTerraform(Len(calls)) /\ calls[Len(calls)].cmd = action

\* C13: the plan action is reported as success for exit codes 0 and 2 (2
\* with the "changes detected" line) and as failure for every other code;
\* every other action is reported as success for exit code 0 only.
C13_PlanTwoIsSuccess ==
    ActionRan =>
        LET rc == calls[Len(calls)].rc IN
        IF action = "plan"
        THEN /\ exit_status = <<0>> <=> rc \in {0, 2}
             /\ exit_status = <<1>> <=> rc \notin {0, 2}
             /\ rc = 2 => printed = "completed successfully - changes detected"
        ELSE /\ exit_status = <<0>> <=> rc = 0
             /\ exit_status = <<1>> <=> rc # 0

C13_Witness ==
    /\ ActionRan /\ action = "plan"
    /\ calls[Len(calls)].rc = 2
    /\ exit_status = <<0>>
    /\ printed = "completed successfully - changes detected"

-----------------------------------------------------------------------------
(* Validation of the configuration keys.                                   *)

\* C14: with the environment or the cluster key absent from the
\* configuration, the run ends with the error that names the missing key,
\* and no gcloud or terraform command has run, no tfvars file has been
\* written and no TF_VAR_* variable has been set.
C14_MissingKeyFailsFirst ==
    config_file \in {"no_env", "no_cluster"} =>
        /\ tw_pc \in {"main", "done"}
        /\ calls = <<>>
        /\ file_primary.state \in {"absent", "stale"}
        /\ file_dr.state \in {"absent", "stale"}
        /\ environ = NoDict
        /\ tw_pc = "done" =>
              /\ exit_status = <<1>>
              /\ error = IF config_file = "no_env"
                         THEN <<"Environment '", ENVIRONMENT,
                                "' not found in configuration">>
                         ELSE <<"Cluster '", CLUSTER,
                                "' not found in environment '", ENVIRONMENT, "'">>

C14_Witness ==
    /\ config_file = "no_cluster"
    /\ refresh_gcp_resource_vars
    /\ tw_pc = "done"
    /\ exit_status = <<1>>

-----------------------------------------------------------------------------
(* The soft failure of the per-instance database listing.                  *)

\* the positions in calls of the `gcloud sql databases list` commands, in
\* the order they ran: one per PostgreSQL instance kept
DbListings ==
    SelectSeq([i \in 1..Len(calls) |-> i],
              LAMBDA i : calls[i].tool = "gcloud" /\ calls[i].cmd = "sql_databases")

\* the instance list command has run and succeeded
SqlListed ==
    \E i \in 1..Len(calls) :
        calls[i].cmd = "sql_postgres_instances" /\ ~FailedCall(i)

\* C15: a failed `gcloud sql databases list` leaves the run going, with an
\* empty database list for that instance in both documents; every other
\* failed gcloud command is the last command of the run, which has aborted
\* with an error.
C15_OnlyDbListingIsSoft ==
    /\ \A i \in 1..Len(calls) :
          (calls[i].tool = "gcloud" /\ calls[i].cmd # "sql_databases"
              /\ FailedCall(i)) =>
                /\ i = Len(calls)
                /\ rd_pc = "failed"
                /\ error # <<>>
    /\ SqlListed =>
          /\ rd_pc \in {"vpc_access_connectors", "write_primary", "write_dr",
                        "done", "failed"}
          /\ \A j \in 1..Len(error) :
                error[j] # KindError["sql_postgres_instances"]
          /\ Len(all_resources.sql_postgres_instances) = Len(DbListings)
          /\ Len(all_resources_dr.sql_postgres_instances) = Len(DbListings)
          /\ \A k \in 1..Len(DbListings) :
                FailedCall(DbListings[k]) =>
                   /\ all_resources.sql_postgres_instances[k].databases = <<>>
                   /\ all_resources_dr.sql_postgres_instances[k].databases = <<>>

C15_Witness ==
    /\ rd_pc = "done"
    /\ Len(DbListings) = 1
    /\ FailedCall(DbListings[1])
    /\ all_resources.sql_postgres_instances[1].databases = <<>>

-----------------------------------------------------------------------------
(* Defaults for missing optional fields.                                   *)

\* the list command of the kind has run and its output was usable
ListedOk(kind) ==
    \E i \in 1..Len(calls) : calls[i].cmd = kind /\ ~FailedCall(i)

\* the run aborted with the error of the kind's get_* method
AbortedIn(kind) ==
    /\ rd_pc = "failed"
    /\ \E j \in 1..Len(error) : error[j] = KindError[kind]

\* C16: once the records of a kind are fetched, their transformation never
\* fails, whatever optional fields they lack, and a field whose source is
\* missing holds its default ('' / false / 0), not None.
C16_MissingFieldsDefault ==
    /\ \A kind \in Kinds : ListedOk(kind) => ~AbortedIn(kind)
    /\ all_resources # NoDict =>
          /\ \A i \in 1..Len(all_resources.compute_subnetworks) :
                LET sn == all_resources.compute_subnetworks[i] IN
                sn.description # None /\ sn.private_ip_google_access \in BOOLEAN
          /\ \A i \in 1..Len(all_resources.firewall_rules) :
                LET fw == all_resources.firewall_rules[i] IN
                /\ fw.description # None /\ fw.destination_ranges # None
                /\ fw.priority \in Int /\ fw.disabled \in BOOLEAN
          /\ \A i \in 1..Len(all_resources.redis_instances) :
                LET redis == all_resources.redis_instances[i] IN
                /\ redis.display_name # None
                /\ redis.memory_size_gb \in Int /\ redis.replica_count \in Int

-----------------------------------------------------------------------------
(* Claims about apply_resources.py (SpecApplier).                          *)

\* main has applied the replacements to the cleaned document
Replaced == ap_pc \in {"write", "kubectl"} \/ (ap_pc = "done" /\ cleaned # None)

\* the entries of the replacements file that change a document
Effective(pair) == pair.search \notin {None, <<>>} /\ pair.replace \notin {None, <<>>}

\* no character of the pair's replace string occurs in its search string
Disjoint(pair) ==
    \A i \in 1..Len(pair.replace) : \A j \in 1..Len(pair.search) :
        pair.replace[i] # pair.search[j]

Once(pair) == apply_replacements(cleaned, <<pair>>)

Twice(pair) == apply_replacements(Once(pair), <<pair>>)

\* C17 as stated: for every pair of the replacements file whose replace
\* string does not contain its search string, applying the pair to the
\* cleaned document twice gives what applying it once gives.
C17_IdempotentUnlessContained ==
    Replaced =>
        \A i \in 1..Len(replacements) :
            LET pair == replacements[i] IN
            (Effective(pair) /\ ~Contains(pair.replace, pair.search))
                => Twice(pair) = Once(pair)

\* C17, amended: for every pair of the replacements file whose replace
\* string shares no character with its search string, applying the pair to
\* the cleaned document twice gives what applying it once gives, and the
\* document main goes on with holds no occurrence of search when the pair is
\* the only one.
C17_IdempotentWhenDisjoint ==
    Replaced =>
        \A i \in 1..Len(replacements) :
            LET pair == replacements[i] IN
            (Effective(pair) /\ Disjoint(pair)) =>
                /\ Twice(pair) = Once(pair)
                /\ Len(replacements) = 1 =>
                      /\ content = Once(pair)
                      /\ ~Contains(content, pair.search)

\* a pair with disjoint strings has changed the cleaned document
C17_Witness ==
    /\ Replaced
    /\ Len(replacements) = 1
    /\ Effective(replacements[1]) /\ Disjoint(replacements[1])
    /\ content # cleaned
    /\ Twice(replacements[1]) = content

\* C18: a pair of the replacements file whose search or replace string is
\* empty or missing leaves the cleaned document as it is, and when the file
\* holds only such pairs main goes on with the cleaned document unchanged.
C18_EmptyPairIsSkipped ==
    Replaced =>
        /\ \A i \in 1..Len(replacements) :
              ~Effective(replacements[i]) => Once(replacements[i]) = cleaned
        /\ (\A i \in 1..Len(replacements) : ~Effective(replacements[i]))
              => content = cleaned

\* a pair with an empty replace string whose search string occurs in the
\* cleaned document
C18_Witness ==
    /\ Replaced
    /\ Len(replacements) = 1
    /\ replacements[1].search = Chars("a")
    /\ replacements[1].replace = <<>>
    /\ Contains(cleaned, Chars("a"))
    /\ content = cleaned

\* main has cleaned the resources file
Cleaned == cleaned # None

\* a line without the '%' characters it ends in
RECURSIVE WithoutTrailingPercents(_)
WithoutTrailingPercents(line) ==
    IF line # <<>> /\ line[Len(line)] = "%"
    THEN WithoutTrailingPercents(SubSeq(line, 1, Len(line) - 1))
    ELSE line

\* C19: every line of the cleaned document is the line of the resources
\* file without all the '%' characters it ends in, nothing else of a line
\* is changed, and the only thing added is an empty last line (the final
\* newline).
C19_TrailingPercentsRemoved ==
    Cleaned =>
        LET before == Split(resources_file, "\n")
            after  == Split(cleaned, "\n")
        IN  /\ Len(after) \in {Len(before), Len(before) + 1}
            /\ \A i \in 1..Len(before) :
                  after[i] = WithoutTrailingPercents(before[i])
            /\ Len(after) > Len(before) => after[Len(after)] = <<>>

\* C20: the cleaned document ends with exactly one newline, whatever the
\* resources file ends with.
C20_ExactlyOneTrailingNewline ==
    Cleaned =>
        /\ EndsWith(cleaned, <<"\n">>)
        /\ ~EndsWith(cleaned, <<"\n", "\n">>)

-----------------------------------------------------------------------------
(* Claims about the fetched records and the records built from them         *)
(* (SpecReader).                                                           *)

\* the get_* method of the kind this run varies has returned its two
\* collections and get_all_resources has stored them
FocusStored ==
    /\ focus \in Kinds
    /\ \/ Returned
       \/ rd_pc \in Kinds /\ KindIndex(rd_pc) > KindIndex(focus)

\* what tells a fetched resource of a kind from every other one: its name,
\* with its region for a Cloud Run service
FullName(kind, record) ==
    IF kind = "cloud_run_services" THEN <<record.region, record.name>>
    ELSE IF kind = "dataproc_cluster" THEN record.clusterName
    ELSE record.name

\* the fetched records are distinct resources
DistinctResources ==
    \A i, j \in 1..Len(fetched) :
        i # j => FullName(focus, fetched[i]) # FullName(focus, fetched[j])

\* no two records of the list hold the same name
DistinctNames(records) ==
    \A i, j \in 1..Len(records) : i # j => records[i].name # records[j].name

\* C21: in the returned documents the names of the records of each list
\* kind are pairwise distinct when the fetched records of the kind are
\* distinct resources.
C21_NamesUniquePerKind ==
    (Returned /\ DistinctResources) =>
        \A kind \in ListKinds :
            /\ DistinctNames(all_resources[kind])
            /\ DistinctNames(all_resources_dr[kind])

\* a name of the form dpc<anything>-allow-<anything>
DpcAllowName(name) ==
    /\ SubSeq(name, 1, 3) = Chars("dpc")
    /\ \E k \in 4..Len(name) : SubSeq(name, k, k + 6) = Chars("-allow-")

\* the fetched records whose name has that form, in fetch order
MatchingFetched == SelectSeq(fetched, LAMBDA rule : DpcAllowName(rule.name))

\* get_firewall_rules has returned in a run that varies the firewall rules
FirewallsStored == focus = "firewall_rules" /\ FocusStored

\* C22: with the pattern '^dpc.*-allow-.*' get_all_resources supplies, the
\* primary and the DR list hold exactly the fetched rules whose name
\* matches, in fetch order; a rule that does not match is dropped from both
\* and never ends the run, whatever fields it lacks.
C22_OnlyMatchingRulesKept ==
    /\ FirewallsStored =>
          /\ Len(all_resources.firewall_rules) = Len(MatchingFetched)
          /\ Len(all_resources_dr.firewall_rules) = Len(MatchingFetched)
          /\ \A i \in 1..Len(MatchingFetched) :
                /\ all_resources.firewall_rules[i].name = MatchingFetched[i].name
                /\ all_resources_dr.firewall_rules[i].name =
                      MatchingFetched[i].name \o DR_SUFFIX
    /\ (focus = "firewall_rules" /\ AbortedIn("firewall_rules")
            /\ ListedOk("firewall_rules"))
          => \E i \in 1..Len(MatchingFetched) :
                MatchingFetched[i].targetTags = None

\* a rule that does not match, fetched before one that does, was dropped
C22_Witness ==
    /\ FirewallsStored
    /\ Len(fetched) = 2
    /\ fetched[1].name = Chars("default-allow-ssh")
    /\ Len(all_resources.firewall_rules) = 1
    /\ all_resources.firewall_rules[1].name = fetched[2].name
    /\ all_resources_dr.firewall_rules[1].name = fetched[2].name \o DR_SUFFIX

\* get_container_clusters has returned in a run that varies the clusters
ClustersStored == focus = "container_clusters" /\ FocusStored

\* the node pools of a fetched cluster
SourcePools(cluster) == StrOr(cluster.nodePools, <<>>)

\* C23: every node pool of every DR cluster record has initial_node_count 1;
\* the pool of the primary record keeps the initialNodeCount of the fetched
\* pool (0 included) and has 1 only when the fetched pool holds none.
C23_DrPoolsStartWithOneNode ==
    ClustersStored =>
        /\ Len(all_resources.container_clusters) = Len(fetched)
        /\ Len(all_resources_dr.container_clusters) = Len(fetched)
        /\ \A i \in 1..Len(fetched) :
              LET pools   == SourcePools(fetched[i])
                  primary == all_resources.container_clusters[i].node_pools
                  dr      == all_resources_dr.container_clusters[i].node_pools
              IN  /\ Len(primary) = Len(pools) /\ Len(dr) = Len(pools)
                  /\ \A j \in 1..Len(pools) :
                        /\ dr[j].initial_node_count = 1
                        /\ primary[j].initial_node_count =
                              IF pools[j].initialNodeCount = Absent THEN 1
                              ELSE pools[j].initialNodeCount[1]

\* a cluster with a pool of three nodes, a pool of none and a pool without
\* a count was fetched and stored
C23_Witness ==
    /\ ClustersStored
    /\ Len(fetched) > 0
    /\ Len(SourcePools(fetched[1])) = 3
    /\ all_resources.container_clusters[1].node_pools[1].initial_node_count = 3
    /\ all_resources.container_clusters[1].node_pools[3].initial_node_count = 0
    /\ all_resources_dr.container_clusters[1].node_pools[1].initial_node_count = 1

\* C29: the primary record of a fetched cluster has the deletionProtection
\* of the cluster when the cluster holds one (true or false), and True only
\* when it holds none.
C29_DeletionProtectionKept ==
    ClustersStored =>
        \A i \in 1..Len(fetched) :
            all_resources.container_clusters[i].deletion_protection =
                IF fetched[i].deletionProtection = Absent THEN TRUE
                ELSE fetched[i].deletionProtection[1]

-----------------------------------------------------------------------------
(* The order of the kinds.                                                 *)

\* the kinds whose method reads self.subnetwork_name while it transforms
\* the fetched records
TransformReadsName == {"dataproc_cluster", "cloud_run_services"}

\* the kinds whose list command filters on self.subnetwork_name
FilterReadsName == {"cloud_functions", "compute_addresses", "container_clusters"}

\* the kinds whose records the comparison below covers (the records of the
\* PostgreSQL instances also depend on the database listings)
ComparedKinds == Kinds \ {"sql_postgres_instances"}

\* what the method of the kind this run varies builds from the fetched
\* records when self.subnetwork_name is sn_name
Produced(sn_name) ==
    CASE focus = "compute_subnetworks" -> get_compute_subnetworks(fetched, ip_ranges)
      [] focus = "nat_routers" -> get_nat_routers(fetched)
      [] focus = "dataproc_cluster" -> get_dataproc_clusters(fetched, sn_name)
      [] focus = "cloud_functions" -> get_cloudfunctions(fetched)
      [] focus = "cloud_run_services" -> get_cloudrun(fetched, sn_name)
      [] focus = "firewall_rules" -> get_firewall_rules(fetched, TRUE, ip_ranges)
      [] focus = "compute_addresses" -> get_compute_addresses(fetched)
      [] focus = "container_clusters" -> get_container_clusters(fetched, ip_ranges)
      [] focus = "redis_instances" -> get_redis_instances(fetched)
      [] focus = "vpc_access_connectors" -> get_vpc_access_connectors(fetched)

\* the same with the name the reader is constructed with, which is the name
\* a kind processed before the subnetworks finds
ProducedBeforeSubnetworks == Produced(Chars("default"))

\* the fetched record passes the filter the list command of its kind builds
\* from the name sn_name
PassesFilter(record, sn_name) ==
    CASE focus = "cloud_functions" ->
            record.vpcConnector = LocationPath(REGION, Chars("connectors"),
                                               sn_name \o FUNC_SUFFIX)
      [] focus = "compute_addresses" -> record.subnetwork = SubnetUrl(sn_name)
      [] focus = "container_clusters" -> record.subnetwork = sn_name

\* C24 as stated: the records stored for a kind are those its method builds
\* from the same fetched records when it runs before the subnetwork kind.
C24_OrderImmaterial ==
    (FocusStored /\ focus \in ComparedKinds) =>
        /\ all_resources[focus] = ProducedBeforeSubnetworks.p
        /\ all_resources_dr[focus] = ProducedBeforeSubnetworks.d

\* C24, amended: the records stored for a kind are those its method builds
\* with the name the subnetwork kind has set; they do not depend on that
\* name for the kinds that neither transform nor filter with it; the name
\* is that of a stored subnetwork with secondary ranges when there is one,
\* and the records the filtering kinds fetched are those that pass the
\* filter built from it, none of which passes the filter built from the
\* name the reader starts with.
C24_OrderMattersThroughSubnetworkName ==
    (FocusStored /\ focus \in ComparedKinds) =>
        /\ all_resources[focus] = Produced(subnetwork_name).p
        /\ all_resources_dr[focus] = Produced(subnetwork_name).d
        /\ focus \notin TransformReadsName =>
              ProducedBeforeSubnetworks = Produced(subnetwork_name)
        /\ \/ \E i \in 1..Len(all_resources.compute_subnetworks) :
                 /\ all_resources.compute_subnetworks[i].name = subnetwork_name
                 /\ all_resources.compute_subnetworks[i].secondary_ip_range # <<>>
           \/ /\ subnetwork_name = Chars("default")
              /\ \A i \in 1..Len(all_resources.compute_subnetworks) :
                    all_resources.compute_subnetworks[i].secondary_ip_range = <<>>
        /\ focus \in FilterReadsName =>
              \A i \in 1..Len(fetched) :
                  /\ PassesFilter(fetched[i], subnetwork_name)
                  /\ ~PassesFilter(fetched[i], Chars("default"))

\* a Dataproc cluster on the subnetwork was stored; processed before the
\* subnetworks, the same fetched list would have given no cluster
C24_Witness ==
    /\ FocusStored
    /\ focus = "dataproc_cluster"
    /\ all_resources.dataproc_cluster # EmptyDict
    /\ ProducedBeforeSubnetworks.p = EmptyDict

-----------------------------------------------------------------------------
(* Claims about the wrapper's constructor (SpecWrapper).                   *)

\* the step runs an external command of the tool
Runs(tool) ==
    /\ Len(calls') > Len(calls)
    /\ \E i \in (Len(calls) + 1)..Len(calls') : calls'[i].tool = tool

\* the step writes the TF_VAR_* variables
SetsEnvironment == environ' # environ

\* C25 as stated: the TF_VAR_* variables are set once, and no step runs an
\* external command, gcloud or terraform, before they are set.
C25_EnvBeforeAnyTool ==
    [][ /\ SetsEnvironment => environ = NoDict
        /\ (Runs("gcloud") \/ Runs("terraform")) => environ # NoDict ]_vars

\* C25, amended: the TF_VAR_* variables are set once, to the values of the
\* configuration, and every terraform command runs after that; the gcloud
\* commands of a run with --refresh-gcp-resource-vars all run before the
\* variables are set.
C25_EnvOnceBeforeTerraform ==
    [][ /\ SetsEnvironment => (environ = NoDict /\ environ' = TfVars)
        /\ Runs("terraform") => (environ = TfVars /\ environ' = TfVars)
        /\ Runs("gcloud") => (refresh_gcp_resource_vars /\ environ = NoDict) ]_vars

\* a run with --refresh-gcp-resource-vars has listed resources with gcloud,
\* set the variables and gone on to run terraform
C25_Witness ==
    /\ refresh_gcp_resource_vars
    /\ environ = TfVars
    /\ \E i, j \in 1..Len(calls) :
          /\ i < j
          /\ calls[i].tool = "gcloud"
          /\ calls[j].tool = "terraform"

-----------------------------------------------------------------------------
(* The two entry points (SpecReader).                                      *)

\* the documents are those the same configuration and the same fetched
\* records give, whichever entry point runs the reader
SameDocuments ==
    /\ all_resources.project = PROJECT_ID /\ all_resources_dr.project = PROJECT_ID
    /\ all_resources.region = REGION
    /\ (FocusStored /\ focus \in ComparedKinds) =>
          /\ all_resources[focus] = Produced(subnetwork_name).p
          /\ all_resources_dr[focus] = Produced(subnetwork_name).d
    /\ \A kind \in ListKinds \ {focus} :
          Len(all_resources[kind]) = Len(all_resources_dr[kind])

\* C26: gcp_resource_reader.main and TerraformWrapper._generate_gcp_resources
\* write the documents get_all_resources returned, these are the same for
\* the same configuration and fetched records, and the region of the DR
\* document is the configured dr_region in both.
C26_EntryPointsAgree ==
    /\ Returned => (SameDocuments /\ all_resources_dr.region = DR_REGION)
    /\ file_primary.state = "new" => file_primary.doc = all_resources
    /\ file_dr.state = "new" =>
          /\ file_dr.doc = all_resources_dr
          /\ file_dr.doc.region = DR_REGION

\* the terraform commands run so far
TerraformCalls == { i \in 1..Len(calls) : calls[i].tool = "terraform" }

\* resource generation was asked for and has failed
GenerationFailed == refresh_gcp_resource_vars /\ rd_pc = "failed"

\* generation was not asked for and the target site has no tfvars file
TfvarsMissing ==
    /\ ~refresh_gcp_resource_vars
    /\ (IF target_site = "primary" THEN file_primary ELSE file_dr).state = "absent"

\* C27: when resource generation was asked for and failed (the reader's
\* validation, a fetch or a file write), or was not asked for while the
\* tfvars file of the target site is missing, no terraform command has run,
\* the run never gets past the constructor, and it ends with status 1.
C27_NoTerraformWithoutTfvars ==
    (GenerationFailed \/ TfvarsMissing) =>
        /\ TerraformCalls = {}
        /\ environ = NoDict
        /\ tw_pc \in {"main", "generating", "done"}
        /\ tw_pc = "done" => exit_status = <<1>>

\* the primary file was written, the DR file was not, and the run ended
\* with status 1
C27_Witness ==
    /\ GenerationFailed
    /\ file_primary.state = "new"
    /\ file_dr.state # "new"
    /\ tw_pc = "done"
    /\ exit_status = <<1>>

-----------------------------------------------------------------------------
(* References between the generated records (SpecReader).                  *)

\* the DR reference is the primary reference with "-dr" (None: no reference)
DrOf(primary_ref, dr_ref) ==
    IF primary_ref = None THEN dr_ref = None
    ELSE dr_ref = primary_ref \o DR_SUFFIX

\* the names of the records of a list kind in a document
NamesIn(document, kind) ==
    { document[kind][i].name : i \in 1..Len(document[kind]) }

\* the names of the secondary ranges of the subnetworks of a document
RangeNamesIn(document) ==
    UNION { { document.compute_subnetworks[i].secondary_ip_range[j].name :
                j \in 1..Len(document.compute_subnetworks[i].secondary_ip_range) } :
            i \in 1..Len(document.compute_subnetworks) }

\* a reference that names a record of the primary document names, with
\* "-dr", a record of the DR document
Resolves(primary_ref, dr_ref, primary_names, dr_names) ==
    /\ DrOf(primary_ref, dr_ref)
    /\ primary_ref \in primary_names => dr_ref \in dr_names

SubnetworkRef(primary_ref, dr_ref) ==
    Resolves(primary_ref, dr_ref, NamesIn(all_resources, "compute_subnetworks"),
             NamesIn(all_resources_dr, "compute_subnetworks"))

ConnectorRef(primary_ref, dr_ref) ==
    Resolves(primary_ref, dr_ref, NamesIn(all_resources, "vpc_access_connectors"),
             NamesIn(all_resources_dr, "vpc_access_connectors"))

RangeRef(primary_ref, dr_ref) ==
    Resolves(primary_ref, dr_ref, RangeNamesIn(all_resources),
             RangeNamesIn(all_resources_dr))

\* the records of a list kind, primary and DR side by side
Pairs(kind) ==
    { [p |-> all_resources[kind][i], d |-> all_resources_dr[kind][i]] :
        i \in 1..Len(all_resources[kind]) }

\* C28: in the returned documents every DR field that names another
\* generated record is the primary field with "-dr", and where the primary
\* field names a record of the primary document the DR field names a record
\* of the DR document.
C28_DrReferencesFollow ==
    Returned =>
        /\ \A kind \in ListKinds :
              Len(all_resources_dr[kind]) = Len(all_resources[kind])
        /\ \A c \in Pairs("container_clusters") :
              /\ SubnetworkRef(c.p.subnetwork, c.d.subnetwork)
              /\ IF c.p.ip_allocation_policy = NoDict
                 THEN c.d.ip_allocation_policy = NoDict
                 ELSE /\ RangeRef(c.p.ip_allocation_policy.cluster_secondary_range_name,
                                  c.d.ip_allocation_policy.cluster_secondary_range_name)
                      /\ RangeRef(c.p.ip_allocation_policy.services_secondary_range_name,
                                  c.d.ip_allocation_policy.services_secondary_range_name)
        /\ IF all_resources.dataproc_cluster = EmptyDict
           THEN all_resources_dr.dataproc_cluster = EmptyDict
           ELSE SubnetworkRef(all_resources.dataproc_cluster.subnetwork,
                              all_resources_dr.dataproc_cluster.subnetwork)
        /\ \A f \in Pairs("cloud_functions") :
              ConnectorRef(f.p.vpc_connector, f.d.vpc_connector)
        /\ \A r \in Pairs("cloud_run_services") :
              ConnectorRef(r.p.vpc_access_connector, r.d.vpc_access_connector)
        /\ \A a \in Pairs("compute_addresses") :
              SubnetworkRef(a.p.subnetwork, a.d.subnetwork)
        /\ \A v \in Pairs("vpc_access_connectors") :
              SubnetworkRef(v.p.subnet.name, v.d.subnet.name)
        /\ \A w \in Pairs("firewall_rules") :
              /\ Len(w.p.target_tags) = 1 /\ Len(w.d.target_tags) = 1
              /\ DrOf(w.p.target_tags[1], w.d.target_tags[1])

\* the documents hold a cluster whose subnetwork and pod range, a service
\* whose connector and a connector whose subnet are records of the documents
C28_Witness ==
    /\ Returned
    /\ \E c \in Pairs("container_clusters") :
          /\ c.p.subnetwork \in NamesIn(all_resources, "compute_subnetworks")
          /\ c.d.subnetwork \in NamesIn(all_resources_dr, "compute_subnetworks")
          /\ c.p.ip_allocation_policy # NoDict
          /\ c.d.ip_allocation_policy.cluster_secondary_range_name
                \in RangeNamesIn(all_resources_dr)
    /\ \E r \in Pairs("cloud_run_services") :
          /\ r.p.vpc_access_connector \in NamesIn(all_resources, "vpc_access_connectors")
          /\ r.d.vpc_access_connector \in NamesIn(all_resources_dr, "vpc_access_connectors")
    /\ \E v \in Pairs("vpc_access_connectors") :
          v.d.subnet.name \in NamesIn(all_resources_dr, "compute_subnetworks")

-----------------------------------------------------------------------------
(* The temporary manifest (SpecApplier).                                   *)

\* C30: when the run has ended no temporary file is left, whether kubectl
\* succeeded, failed or ran with --dry-run=client, and the manifest kubectl
\* was run on is apply_replacements(clean_yaml(<resources file>), ..).
C30_TempFileRemoved ==
    /\ ap_pc = "done" => temp_file = NoFile
    /\ \A i \in 1..Len(applied) :
          /\ applied[i].doc =
                apply_replacements(clean_yaml(resources_file), replacements)
          /\ applied[i].dry_run = dry_run

====
